---- MODULE Spec2Model ----
(***************************************************************************)
(* Account linking and reconciliation engine of PortfolioApp               *)
(* (backend/src/app/services/plaid_service.py and api/v1/plaid.py).        *)
(*                                                                         *)
(* The data store (Supabase) and the provider (Plaid) are external: every  *)
(* .execute() and every provider call is one round trip, so a request is   *)
(* modelled as a process that takes one step per round trip.  Several      *)
(* worker processes share the store.  The sandbox helper of the same       *)
(* service and the rate limiter in front of the application                *)
(* (core/middleware.py) have their own specifications.                     *)
(*                                                                         *)
(* Money is kept in integer cents, quantities in whole units; an absent    *)
(* Optional[str] is the string NoStr, an absent Optional[Decimal] the      *)
(* empty sequence.                                                         *)
(***************************************************************************)
EXTENDS Integers, Sequences, FiniteSets, TLC

\* ------------------------------------------------------------------ bounds
MaxRequests == 2
MaxTokens == 2
MaxFaults == 1
\* the rate limiter: RateLimitMiddleware(max_requests=100, window_seconds=60)
\* is explored with a small limit and a short window
max_requests == 2
window_seconds == 2
MaxArrivals == 6
MaxTime == 4

\* ---------------------------------------------------------------- universe
Users == {"u1", "u2"}
Procs == {1, 2}
Keys == {"k1", "k2"}
Clients == {"10.0.0.1", "10.0.0.2"}
NoStr == "<None>"
NoId == <<>>

\* Python truthiness of an Optional[str]: None and '' are falsy
Truthy(s) == s # NoStr /\ s # ""

\* `x or y` on Optional[str]
OrElse(x, y) == IF Truthy(x) THEN x ELSE y

\* ---------------------------------------------------- provider's secrets
\* response['item_id'] and response['access_token'] of the n-th item the
\* provider creates; both are strings, and the provider knows which access
\* token belongs to which item
ItemId(n) == "item-" \o ToString(n)

AccessToken(n) == "access-sandbox-" \o ToString(n)

ItemNumbers == 1..MaxTokens

AccessTokens == {AccessToken(n) : n \in ItemNumbers}

ItemOfToken(tok) == CHOOSE n \in ItemNumbers : AccessToken(n) = tok

TokenOfItemId(item_id) == AccessToken(CHOOSE n \in ItemNumbers : ItemId(n) = item_id)

\* ------------------------------------------------------------- encryption
\* Fernet under the key derived from SUPABASE_ANON_KEY, base64 encoded: the
\* ciphertext is a string that starts with the Fernet version marker, and it
\* decrypts only under the key that produced it.
Encrypt(key, data) == "Z0FBQUFB:" \o key \o ":" \o data

\* fernet.decrypt raises InvalidToken unless the token was made under `key`
DecryptOk(key, ct) == \E data \in AccessTokens : Encrypt(key, data) = ct

\* variant: the token of the first item, whatever the ciphertext
DecryptStale(key, ct) == AccessToken(1)

Decrypt(key, ct) == CHOOSE data \in AccessTokens : Encrypt(key, data) = ct

\* ---------------------------------------------------------- provider data
\* What the provider holds for the item behind access token `tok`.  Odd and
\* even items expose different
\* institutions that share the external account id "acc_A" and the security
\* id "sec_1".  The odd item has two holdings on "acc_A" that no security of
\* its own resolves (one without security id, one of "sec_9"); the even item
\* lists "sec_9" twice, resolves "sec_2" to a security without ticker, and
\* reports a holding on an account ("acc_C") it does not list.
RawAccount(id, name, type, subtype, current) ==
    [account_id |-> id, name |-> name, type |-> type, subtype |-> subtype,
     current |-> current]

RawHolding(acc, sec, qty, price, value, cost) ==
    [account_id |-> acc, security_id |-> sec, quantity |-> qty,
     institution_price |-> price, institution_value |-> value,
     cost_basis |-> cost]

RawSecurity(id, ticker, name) ==
    [security_id |-> id, ticker_symbol |-> ticker, name |-> name]

ProviderAccounts(tok) ==
    IF ItemOfToken(tok) % 2 = 1
    THEN << RawAccount("acc_A", "Brokerage", "investment", "ira", 100000),
            RawAccount("acc_B", "Checking", "depository", NoStr, 5000) >>
    ELSE << RawAccount("acc_A", "Joint", "investment", NoStr, 70000) >>

ProviderHoldings(tok) ==
    IF ItemOfToken(tok) % 2 = 1
    THEN << RawHolding("acc_A", "sec_1", 10, 15025, 150250, <<140000>>),
            RawHolding("acc_A", NoStr, 0, 0, 0, <<500>>),
            RawHolding("acc_A", "sec_9", 3, 100, 300, <<0>>) >>
    ELSE << RawHolding("acc_A", "sec_2", 4, 2500, 10000, <<>>),
            RawHolding("acc_C", "sec_1", 7, 15025, 105175, <<70000>>) >>

ProviderSecurities(tok) ==
    IF ItemOfToken(tok) % 2 = 1
    THEN << RawSecurity("sec_1", "AAPL", "Apple") >>
    ELSE << RawSecurity("sec_1", "APLE", "Apple Inc"),
            RawSecurity("sec_9", "BNDX", "Bond Fund (old)"),
            RawSecurity("sec_2", NoStr, "Muni Bond"),
            RawSecurity("sec_9", "BND", "Bond Fund") >>

\* ----------------------------------------------------------- normalisation
\* PlaidAccount(...) built from one provider account
MkAccount(a) ==
    [account_id |-> a.account_id, name |-> a.name, type |-> a.type,
     subtype |-> a.subtype, balance |-> a.current]

\* PlaidHolding(...) built from one provider holding
MkHolding(h) ==
    [account_id |-> h.account_id, security_id |-> h.security_id,
     quantity |-> h.quantity, price |-> h.institution_price,
     value |-> h.institution_value, cost_basis |-> h.cost_basis,
     name |-> "Unknown Security", symbol |-> NoStr]

\* PlaidSecurity(...) built from one provider security
MkSecurity(s) ==
    [security_id |-> s.security_id, symbol |-> s.ticker_symbol, name |-> s.name]

MapSeq(Op(_), s) == [i \in 1..Len(s) |-> Op(s[i])]

\* security_map = {s.security_id: s for s in all_securities}: a later entry
\* with the same id replaces an earlier one
InSecurityMap(secs, id) == \E i \in 1..Len(secs) : secs[i].security_id = id

\* variant: the first entry with the id is kept
SecurityMapGetFirst(secs, id) ==
    LET first == CHOOSE i \in 1..Len(secs) :
                     /\ secs[i].security_id = id
                     /\ \A j \in 1..(i-1) : secs[j].security_id # id
    IN  secs[first]

SecurityMapGet(secs, id) ==
    LET last == CHOOSE i \in 1..Len(secs) :
                    /\ secs[i].security_id = id
                    /\ \A j \in (i+1)..Len(secs) : secs[j].security_id # id
    IN  secs[last]

\* "Update holdings with security info"
BackfillOne(h, secs) ==
    IF Truthy(h.security_id) /\ InSecurityMap(secs, h.security_id)
    THEN [h EXCEPT !.name = SecurityMapGet(secs, h.security_id).name,
                   !.symbol = SecurityMapGet(secs, h.security_id).symbol]
    ELSE h

Backfill(hs, secs) == [i \in 1..Len(hs) |-> BackfillOne(hs[i], secs)]

\* ------------------------------------------------------- rows to be written
RECURSIVE GCD(_, _)
GCD(a, b) == IF b = 0 THEN a ELSE GCD(b, a % b)

\* the quotient n / d of two floats, kept exact as a reduced fraction <<n, d>>
Quot(n, d) == LET g == GCD(n, d) IN IF g = 0 THEN <<0, 1>> ELSE <<n \div g, d \div g>>

\* `holding.cost_basis or 0`
CostOrZero(h) == IF h.cost_basis = <<>> THEN 0 ELSE h.cost_basis[1]

\* variant: the division is not guarded by quantity > 0
AvgCostAnyQuantity(h) ==
    IF CostOrZero(h) # 0
    THEN Quot(CostOrZero(h), h.quantity)
    ELSE <<0, 1>>

\* 'avg_cost': cost_basis / quantity if holding.cost_basis and quantity > 0 else 0
AvgCost(h) ==
    IF CostOrZero(h) # 0 /\ h.quantity > 0
    THEN Quot(CostOrZero(h), h.quantity)
    ELSE <<0, 1>>

\* 'gain_loss': value - (cost_basis or 0)
GainLoss(h) == h.value - CostOrZero(h)

\* variant: a holding without symbol is stored under its security id
StoredSymbolPerSecurity(h) == OrElse(h.symbol, OrElse(h.security_id, "UNKNOWN"))

\* `holding.symbol or 'UNKNOWN'`
StoredSymbol(h) == OrElse(h.symbol, "UNKNOWN")

\* account_data of _store_portfolio_data
AccountData(user, a, t) ==
    [user_id |-> user, account_name |-> a.name,
     account_type |-> OrElse(a.subtype, a.type), total_value |-> a.balance,
     plaid_account_id |-> a.account_id, updated_at |-> t]

\* holding_data of _store_portfolio_data
HoldingData(db_id, h, t) ==
    [account_id |-> db_id, symbol |-> StoredSymbol(h), shares |-> h.quantity,
     avg_cost |-> AvgCost(h), current_price |-> h.price,
     total_value |-> h.value, gain_loss |-> GainLoss(h),
     security_name |-> h.name, updated_at |-> t]

\* The store generates the id of a new row.  Any fresh value will do; the
\* model takes the row's key and the number of rows that already carry it.
FreshAccountId(table, user, ext) ==
    <<user, ext, Cardinality({row \in table : row.user_id = user /\ row.plaid_account_id = ext}) + 1>>

FreshHoldingId(table, db_id, sym) ==
    <<db_id, sym, Cardinality({row \in table : row.account_id = db_id /\ row.symbol = sym}) + 1>>

\* insert(data): the store assigns the id; the caller supplies created_at
NewRow(data, id, t) ==
    [f \in (DOMAIN data) \cup {"id", "created_at"} |->
        IF f = "id" THEN id ELSE IF f = "created_at" THEN t ELSE data[f]]

\* variant: the update rewrites the whole row, created_at included
UpdatedRowResetsCreated(row, data) ==
    [f \in DOMAIN row |-> IF f \in DOMAIN data THEN data[f]
                          ELSE IF f = "created_at" THEN data.updated_at
                          ELSE row[f]]

\* update(data).eq('id', id): the fields of data replace those of the row
UpdatedRow(row, data) ==
    [f \in DOMAIN row |-> IF f \in DOMAIN data THEN data[f] ELSE row[f]]

UpdateById(table, id, data) ==
    {IF row.id = id THEN UpdatedRow(row, data) ELSE row : row \in table}

\* variant: the lookup compares the wrong column
AccountsByKeyWrongColumn(table, user, ext) ==
    {row \in table : row.user_id = user /\ row.account_name = ext}

\* variant: the lookup leaves out the user_id filter
AccountsByKeyAnyUser(table, user, ext) ==
    {row \in table : row.plaid_account_id = ext}

\* select('id').eq('user_id', ..).eq('plaid_account_id', ..)
AccountsByKey(table, user, ext) ==
    {row \in table : row.user_id = user /\ row.plaid_account_id = ext}

\* variant: the lookup uses holding.symbol without the 'UNKNOWN' fallback, so
\* a holding without symbol is never found
HoldingsByKeyRawSymbol(table, db_id, sym) ==
    {row \in table : row.account_id = db_id /\ row.symbol = sym /\ sym # "UNKNOWN"}

\* select('id').eq('account_id', ..).eq('symbol', ..)
HoldingsByKey(table, db_id, sym) ==
    {row \in table : row.account_id = db_id /\ row.symbol = sym}

\* ---------------------------------------------------------------- errors
NoLinkedMsg == "No Plaid accounts linked for this user"
SyncFailedMsg == "Failed to retrieve account data"
PlaidErrorMsg == "Plaid API Error: UNKNOWN"
ExchangeFailedMsg == "Failed to exchange public token"
LinkTokenFailedMsg == "Failed to create link token"
SandboxOnlyMsg == "This helper is only available in Plaid sandbox environment"
NoInstitutionMsg == "No sandbox investments institutions found for given query"
NoPublicTokenMsg == "Failed to create sandbox public token"
SandboxExchangeFailedMsg == "Failed to exchange sandbox public token"

\* _convert_plaid_error
ConvertPlaidError == PlaidErrorMsg

\* the except clauses that close get_accounts_and_holdings
SyncHandler(kind, msg) ==
    IF kind = "ApiException" THEN ConvertPlaidError ELSE SyncFailedMsg

\* the except clauses that close create_link_token
LinkTokenHandler(kind, msg) ==
    IF kind = "ApiException" THEN ConvertPlaidError ELSE LinkTokenFailedMsg

\* the except clauses that close sandbox_create_investments_item: an
\* ApiException is converted, anything else is raised again as it is
SandboxHandler(kind, msg) ==
    IF kind = "ApiException" THEN ConvertPlaidError ELSE msg

\* the except clauses that close exchange_public_token
ExchangeHandler(kind, msg) ==
    IF kind = "ApiException" THEN ConvertPlaidError ELSE ExchangeFailedMsg

Returned(accs, hs, secs) ==
    [kind |-> "return", msg |-> "", accounts |-> accs, holdings |-> hs,
     securities |-> secs]

Raised(msg) ==
    [kind |-> "raise", msg |-> msg, accounts |-> <<>>, holdings |-> <<>>,
     securities |-> <<>>]

NoResult ==
    [kind |-> "none", msg |-> "", accounts |-> <<>>, holdings |-> <<>>,
     securities |-> <<>>]

\* `"No Plaid accounts linked" in str(e)`: of the messages the service can
\* raise, only NoLinkedMsg contains the text
MentionsNoLinked(msg) == msg = NoLinkedMsg

\* variant: the sandbox endpoint has no except clause
RespondSandboxUncaught(ep, res) ==
    IF ep = "exchange" THEN 200
    ELSE IF res.kind = "return" THEN 200
    ELSE IF ep = "sandbox" THEN 0
    ELSE IF MentionsNoLinked(res.msg) THEN 404
    ELSE 500

\* variant: a failure of the initial sync fails the exchange request
RespondInitialSyncFails(ep, res) ==
    IF res.kind = "return" THEN 200
    ELSE IF ep = "sandbox" THEN 400
    ELSE IF MentionsNoLinked(res.msg) THEN 404
    ELSE 500

\* the HTTP status the endpoint answers with, given what the service call
\* did; 0 stands for an exception that leaves the endpoint function
Respond(ep, res) ==
    IF ep = "exchange" THEN 200
    ELSE IF res.kind = "return" THEN 200
    ELSE IF ep = "sandbox" THEN 400
    ELSE IF MentionsNoLinked(res.msg) THEN 404
    ELSE 500

\* ----------------------------------------------------------------- state
VARIABLES
    plaid_access_tokens,  \* table: sequence of connection rows, oldest first
    portfolio_accounts,   \* table: set of account rows
    holdings,             \* table: set of holding rows
    nextItem,             \* next item the provider creates
    now,                  \* datetime.utcnow(), in ticks
    appKey,               \* settings.SUPABASE_ANON_KEY of the running deployment
    proc,                 \* the request each worker is serving, with its locals
    nRequests,            \* requests so far that went to the store; requests
                          \* that end before they reach it are not counted
    nFaults,              \* store faults injected so far
    last,                 \* what the previous finished sync saw and left behind
    client_requests,      \* RateLimitMiddleware.client_requests
    clock,                \* time.time(), in ticks
    history               \* the requests that reached the limiter, with the
                          \* time and the answer of each

limiter_vars == << client_requests, clock, history >>

app_vars == << plaid_access_tokens, portfolio_accounts, holdings, nextItem,
               now, appKey, proc, nRequests, nFaults, last >>

vars == << plaid_access_tokens, portfolio_accounts, holdings, nextItem,
           now, appKey, proc, nRequests, nFaults, last, limiter_vars >>

IdleProc ==
    [pc |-> "idle", ep |-> "", user_id |-> "", tokens |-> <<>>, ti |-> 0,
     all_accounts |-> <<>>, all_holdings |-> <<>>, all_securities |-> <<>>,
     log |-> <<>>, ai |-> 0, hi |-> 0, account_holdings |-> <<>>,
     existing_id |-> NoId, account_db_id |-> NoId,
     in_sync |-> FALSE, faulted |-> FALSE, store_raised |-> FALSE, writes |-> 0,
     fetched |-> NoResult, result |-> NoResult, status |-> 0,
     auth |-> "", provider_calls |-> 0, insert |-> "", success |-> FALSE,
     item_id |-> NoStr, env |-> "", public_token |-> NoStr]

NoLast ==
    [valid |-> FALSE, user_id |-> "", log |-> <<>>, faulted |-> FALSE,
     accounts |-> {}, holdings |-> {}]

Init ==
    /\ plaid_access_tokens = <<>>
    /\ portfolio_accounts = {}
    /\ holdings = {}
    /\ nextItem = 1
    /\ now = 1
    /\ appKey = "k1"
    /\ proc = [p \in Procs |-> IdleProc]
    /\ nRequests = 0
    /\ nFaults = 0
    /\ last = NoLast
    /\ client_requests = {}
    /\ clock = 0
    /\ history = << >>

SetProc(p, r) == proc' = [proc EXCEPT ![p] = r]

\* who sends the next request.  The users are interchangeable (nothing in the
\* program or at the provider depends on who a user is), so the user of the
\* first request that reaches the store is called u1.
Callers == IF nRequests = 0 THEN {"u1"} ELSE Users

CanFault == nFaults < MaxFaults

\* the request ends: the service result and the endpoint's status are fixed
Done(r, res) == [r EXCEPT !.pc = "done", !.result = res, !.status = Respond(r.ep, res)]

\* ------------------------------------------------------------- environment
\* redeployment with another SUPABASE_ANON_KEY: the Fernet key changes
RotateKey ==
    /\ appKey = "k1"
    /\ \A p \in Procs : proc[p].pc = "idle"
    /\ plaid_access_tokens # <<>>
    /\ appKey' = "k2"
    /\ UNCHANGED << limiter_vars, plaid_access_tokens, portfolio_accounts, holdings, nextItem,
                    now, proc, nRequests, nFaults, last >>

\* ------------------------------------------------------ request admission
\* GET /accounts and POST /sync: both call get_accounts_and_holdings
BeginSync(p, u, ep) ==
    /\ proc[p].pc = "idle"
    /\ nRequests < MaxRequests
    /\ nRequests' = nRequests + 1
    /\ UNCHANGED now
    /\ SetProc(p, [IdleProc EXCEPT !.pc = "select_tokens", !.ep = ep, !.user_id = u,
                                   !.auth = "valid"])
    /\ UNCHANGED << limiter_vars, plaid_access_tokens, portfolio_accounts, holdings, nextItem,
                    appKey, nFaults, last >>

GetAccounts(p) == \E u \in Callers : BeginSync(p, u, "accounts")

SyncAccounts(p) == \E u \in Callers : BeginSync(p, u, "sync")

\* POST /link-token: one provider call, no store access; an ApiException is
\* converted, any other exception becomes "Failed to create link token", and
\* both are answered 500
LinkTokenMsg == "link-token"

CreateLinkToken(p) ==
    \E u \in Callers, out \in {"ok", "ApiException", "Exception"} :
        /\ proc[p].pc = "idle"
        /\ nRequests < MaxRequests
        /\ SetProc(p, Done([IdleProc EXCEPT !.ep = "link-token", !.user_id = u,
                                            !.auth = "valid", !.provider_calls = 1],
                           IF out = "ok"
                           THEN [NoResult EXCEPT !.kind = "return", !.msg = LinkTokenMsg]
                           ELSE Raised(LinkTokenHandler(out, ""))))
        /\ UNCHANGED << limiter_vars, plaid_access_tokens, portfolio_accounts, holdings, nextItem,
                        now, appKey, nRequests, nFaults, last >>

\* the endpoints that take the bearer token through get_current_user
Endpoints == {"link-token", "exchange", "accounts", "sync"}

\* HTTPBearer answers 403 without credentials; verify_token answers 401 when
\* the auth service does not know the token
AuthStatus(cred) == IF cred = "missing" THEN 403 ELSE 401

\* variant: the endpoint body runs although the dependency failed
UnauthenticatedServed(p) ==
    \E ep \in Endpoints, cred \in {"missing", "invalid"}, u \in Users :
        /\ proc[p].pc = "idle"
        /\ nRequests < MaxRequests
        /\ SetProc(p, [IdleProc EXCEPT !.pc = "select_tokens", !.ep = ep,
                                       !.user_id = u, !.auth = cred])
        /\ UNCHANGED << limiter_vars, plaid_access_tokens, portfolio_accounts, holdings,
                        nextItem, now, appKey, nRequests, nFaults, last >>

\* a request without bearer token, or with one that fails verification: the
\* dependency raises before the endpoint body runs
Unauthenticated(p) ==
    \E ep \in Endpoints, cred \in {"missing", "invalid"} :
        /\ proc[p].pc = "idle"
        /\ nRequests < MaxRequests
        /\ SetProc(p, [IdleProc EXCEPT !.pc = "done", !.ep = ep, !.auth = cred,
                                       !.status = AuthStatus(cred)])
        /\ UNCHANGED << limiter_vars, plaid_access_tokens, portfolio_accounts, holdings, nextItem,
                        now, appKey, nRequests, nFaults, last >>

\* ------------------------------------------------- exchange_public_token
\* variant: the access token is stored as received
ExchangeOkPlaintext(p) ==
    \E u \in Callers :
        /\ proc[p].pc = "idle"
        /\ nRequests < MaxRequests
        /\ nextItem <= MaxTokens
        /\ nRequests' = nRequests + 1
        /\ UNCHANGED now
        /\ nextItem' = nextItem + 1
        /\ plaid_access_tokens' = Append(plaid_access_tokens,
               [user_id |-> u, item_id |-> ItemId(nextItem),
                access_token_encrypted |-> AccessToken(nextItem),
                created_at |-> now, updated_at |-> now])
        /\ SetProc(p, [IdleProc EXCEPT !.pc = "select_tokens", !.ep = "exchange",
                                       !.user_id = u, !.auth = "valid",
                                       !.provider_calls = 1, !.insert = "ok",
                                       !.success = TRUE,
                                       !.item_id = ItemId(nextItem)])
        /\ UNCHANGED << limiter_vars, portfolio_accounts, holdings, appKey, nFaults, last >>

\* POST /exchange-token, provider accepts the public token: the access token
\* of a new item is encrypted and inserted; on success the endpoint goes on
\* to an initial sync
ExchangeOk(p) ==
    \E u \in Callers :
        /\ proc[p].pc = "idle"
        /\ nRequests < MaxRequests
        /\ nextItem <= MaxTokens
        /\ nRequests' = nRequests + 1
        /\ UNCHANGED now
        /\ nextItem' = nextItem + 1
        /\ plaid_access_tokens' = Append(plaid_access_tokens,
               [user_id |-> u, item_id |-> ItemId(nextItem),
                access_token_encrypted |-> Encrypt(appKey, AccessToken(nextItem)),
                created_at |-> now, updated_at |-> now])
        /\ SetProc(p, [IdleProc EXCEPT !.pc = "select_tokens", !.ep = "exchange",
                                       !.user_id = u, !.auth = "valid",
                                       !.provider_calls = 1, !.insert = "ok",
                                       !.success = TRUE,
                                       !.item_id = ItemId(nextItem)])
        /\ UNCHANGED << limiter_vars, portfolio_accounts, holdings, appKey, nFaults, last >>

\* variant: a connection row is written although the exchange was rejected
ExchangeRejectedStoresRow(p) ==
    \E u \in Callers :
        /\ proc[p].pc = "idle"
        /\ nRequests < MaxRequests
        /\ UNCHANGED << now, nRequests >>
        /\ SetProc(p, [IdleProc EXCEPT !.pc = "done", !.ep = "exchange",
                          !.user_id = u, !.auth = "valid", !.provider_calls = 1,
                          !.result = Raised(ExchangeHandler("ApiException", "")),
                          !.status = 500])
        /\ plaid_access_tokens' = Append(plaid_access_tokens,
               [user_id |-> u, item_id |-> NoStr,
                access_token_encrypted |-> Encrypt(appKey, AccessToken(1)),
                created_at |-> now, updated_at |-> now])
        /\ UNCHANGED << limiter_vars, portfolio_accounts, holdings, nextItem, appKey,
                        nFaults, last >>

\* the provider rejects the public token: ApiException, converted and raised,
\* answered 500 by the endpoint
ExchangeRejected(p) ==
    \E u \in Callers :
        /\ proc[p].pc = "idle"
        /\ nRequests < MaxRequests
        /\ UNCHANGED << now, nRequests >>
        /\ SetProc(p, [IdleProc EXCEPT !.pc = "done", !.ep = "exchange",
                          !.user_id = u, !.auth = "valid", !.provider_calls = 1,
                          !.result = Raised(ExchangeHandler("ApiException", "")),
                          !.status = 500])
        /\ UNCHANGED << limiter_vars, plaid_access_tokens, portfolio_accounts, holdings, nextItem,
                        appKey, nFaults, last >>

\* the insert went through but the driver returns no row ("Some Supabase
\* clients may not return inserted rows"): exchange_public_token returns
\* False, answered 200 with success=False, and no initial sync runs
ExchangeNoEcho(p) ==
    \E u \in Callers :
        /\ proc[p].pc = "idle"
        /\ nRequests < MaxRequests
        /\ nextItem <= MaxTokens
        /\ nRequests' = nRequests + 1
        /\ nextItem' = nextItem + 1
        /\ plaid_access_tokens' = Append(plaid_access_tokens,
               [user_id |-> u, item_id |-> ItemId(nextItem),
                access_token_encrypted |-> Encrypt(appKey, AccessToken(nextItem)),
                created_at |-> now, updated_at |-> now])
        /\ SetProc(p, [IdleProc EXCEPT !.pc = "done", !.ep = "exchange",
                          !.user_id = u, !.auth = "valid", !.provider_calls = 1,
                          !.insert = "noecho", !.status = 200,
                          !.item_id = ItemId(nextItem)])
        /\ UNCHANGED << limiter_vars, portfolio_accounts, holdings, now, appKey, nFaults, last >>

\* variant: the result of the insert is not looked at
ExchangeStoreFaultUnnoticed(p) ==
    \E u \in Callers, how \in {"raise", "error"} :
        /\ proc[p].pc = "idle"
        /\ nRequests < MaxRequests
        /\ nextItem <= MaxTokens
        /\ CanFault
        /\ nFaults' = nFaults + 1
        /\ nRequests' = nRequests + 1
        /\ UNCHANGED now
        /\ nextItem' = nextItem + 1
        /\ SetProc(p, [IdleProc EXCEPT !.pc = "select_tokens", !.ep = "exchange",
                          !.user_id = u, !.faulted = TRUE, !.auth = "valid",
                          !.provider_calls = 1, !.insert = how,
                          !.success = TRUE])
        /\ UNCHANGED << limiter_vars, plaid_access_tokens, portfolio_accounts, holdings,
                        appKey, last >>

\* the insert of the connection row fails: it raises (answered 500) or it
\* returns no row (exchange_public_token returns False, answered 200 with
\* success=False)
ExchangeStoreFault(p) ==
    \E u \in Callers, how \in {"raise", "error"} :
        /\ proc[p].pc = "idle"
        /\ nRequests < MaxRequests
        /\ nextItem <= MaxTokens
        /\ CanFault
        /\ nFaults' = nFaults + 1
        /\ nRequests' = nRequests + 1
        /\ UNCHANGED now
        /\ nextItem' = nextItem + 1
        /\ SetProc(p, [IdleProc EXCEPT !.pc = "done", !.ep = "exchange",
                          !.user_id = u, !.faulted = TRUE, !.auth = "valid",
                          !.provider_calls = 1, !.insert = how,
                          !.result = IF how = "raise"
                                     THEN Raised(ExchangeHandler("Exception", ""))
                                     ELSE NoResult,
                          !.status = IF how = "raise" THEN 500 ELSE 200])
        /\ UNCHANGED << limiter_vars, plaid_access_tokens, portfolio_accounts, holdings,
                        appKey, last >>

\* ------------------------------------- sandbox_create_investments_item
\* settings.PLAID_ENV of the deployment that serves the request
PlaidEnvs == {"sandbox", "SANDBOX", "production"}

\* str.lower() on the values of PlaidEnvs
Lower(env) == IF env = "SANDBOX" THEN "sandbox" ELSE env

\* response.public_token of sandbox_public_token_create
PublicToken == "public-sandbox-1"

\* variant: the helper does not look at the environment
SandboxBeginAnyEnv(p) ==
    \E u \in Callers, env \in PlaidEnvs, given \in BOOLEAN :
        LET r == [IdleProc EXCEPT !.ep = "sandbox", !.user_id = u,
                                  !.auth = "valid", !.env = Lower(env)]
        IN  /\ proc[p].pc = "idle"
            /\ nRequests < MaxRequests
            /\ SetProc(p, [r EXCEPT !.pc = IF given THEN "sb_token" ELSE "sb_search"])
            /\ UNCHANGED << limiter_vars, plaid_access_tokens, portfolio_accounts, holdings,
                            nextItem, now, appKey, nRequests, nFaults, last >>

\* POST /sandbox/link-investments: outside the sandbox environment the
\* helper raises before its try block; with an institution_id in the
\* request the search is left out
SandboxBegin(p) ==
    \E u \in Callers, env \in PlaidEnvs, given \in BOOLEAN :
        LET r == [IdleProc EXCEPT !.ep = "sandbox", !.user_id = u,
                                  !.auth = "valid", !.env = Lower(env)]
        IN  /\ proc[p].pc = "idle"
            /\ nRequests < MaxRequests
            /\ IF Lower(env) # "sandbox"
               THEN SetProc(p, Done(r, Raised(SandboxOnlyMsg)))
               ELSE SetProc(p, [r EXCEPT !.pc = IF given THEN "sb_token"
                                                ELSE "sb_search"])
            /\ UNCHANGED << limiter_vars, plaid_access_tokens, portfolio_accounts, holdings, nextItem,
                            now, appKey, nRequests, nFaults, last >>

\* client.institutions_search: institutions, an empty list, or ApiException
SandboxSearch(p) ==
    \E out \in {"found", "none", "ApiException"} :
        LET r == [proc[p] EXCEPT !.provider_calls = @ + 1]
        IN  /\ proc[p].pc = "sb_search"
            /\ SetProc(p, CASE out = "found" -> [r EXCEPT !.pc = "sb_token"]
                            [] out = "none" ->
                                 Done(r, Raised(SandboxHandler("Exception", NoInstitutionMsg)))
                            [] OTHER -> Done(r, Raised(SandboxHandler(out, ""))))
            /\ UNCHANGED << limiter_vars, plaid_access_tokens, portfolio_accounts, holdings, nextItem,
                            now, appKey, nRequests, nFaults, last >>

\* client.sandbox_public_token_create: a public token, a response without
\* one, or ApiException
SandboxToken(p) ==
    \E out \in {"ok", "empty", "ApiException"} :
        LET r == [proc[p] EXCEPT !.provider_calls = @ + 1]
        IN  /\ proc[p].pc = "sb_token"
            /\ SetProc(p, CASE out = "ok" -> [r EXCEPT !.pc = "sb_exchange",
                                                       !.public_token = PublicToken]
                            [] out = "empty" ->
                                 Done(r, Raised(SandboxHandler("Exception", NoPublicTokenMsg)))
                            [] OTHER -> Done(r, Raised(SandboxHandler(out, ""))))
            /\ UNCHANGED << limiter_vars, plaid_access_tokens, portfolio_accounts, holdings, nextItem,
                            now, appKey, nRequests, nFaults, last >>

\* variant: the helper goes on to the sync whatever the exchange returned
SandboxExchangeSyncAlways(p) ==
    \E out \in {"ok", "noecho", "ApiException"} :
        LET r == [proc[p] EXCEPT !.provider_calls = @ + 1]
            row == [user_id |-> r.user_id, item_id |-> ItemId(nextItem),
                    access_token_encrypted |-> Encrypt(appKey, AccessToken(nextItem)),
                    created_at |-> now, updated_at |-> now]
        IN  /\ proc[p].pc = "sb_exchange"
            /\ nextItem <= MaxTokens
            /\ IF out = "ApiException"
               THEN /\ SetProc(p, Done(r, Raised(SandboxHandler("Exception",
                                           ExchangeHandler("ApiException", "")))))
                    /\ UNCHANGED << plaid_access_tokens, nextItem, nRequests >>
               ELSE /\ plaid_access_tokens' = Append(plaid_access_tokens, row)
                    /\ nextItem' = nextItem + 1
                    /\ nRequests' = nRequests + 1
                    /\ SetProc(p, [r EXCEPT !.pc = "select_tokens", !.insert = out,
                                            !.success = (out = "ok"),
                                            !.item_id = row.item_id])
            /\ UNCHANGED << limiter_vars, portfolio_accounts, holdings, now, appKey, nFaults, last >>

\* exchange_public_token inside the helper: the provider rejects the public
\* token (the converted error is raised again), or the connection row is
\* inserted and echoed (the helper goes on to the sync), or it is inserted
\* and not echoed (False: "Failed to exchange sandbox public token")
SandboxExchange(p) ==
    \E out \in {"ok", "noecho", "ApiException"} :
        LET r == [proc[p] EXCEPT !.provider_calls = @ + 1]
            row == [user_id |-> r.user_id, item_id |-> ItemId(nextItem),
                    access_token_encrypted |-> Encrypt(appKey, AccessToken(nextItem)),
                    created_at |-> now, updated_at |-> now]
        IN  /\ proc[p].pc = "sb_exchange"
            /\ nextItem <= MaxTokens
            /\ IF out = "ApiException"
               THEN /\ SetProc(p, Done(r, Raised(SandboxHandler("Exception",
                                           ExchangeHandler("ApiException", "")))))
                    /\ UNCHANGED << plaid_access_tokens, nextItem, nRequests >>
               ELSE /\ plaid_access_tokens' = Append(plaid_access_tokens, row)
                    /\ nextItem' = nextItem + 1
                    /\ nRequests' = nRequests + 1
                    /\ SetProc(p, IF out = "ok"
                                  THEN [r EXCEPT !.pc = "select_tokens", !.insert = "ok",
                                                 !.success = TRUE,
                                                 !.item_id = row.item_id]
                                  ELSE Done([r EXCEPT !.insert = "noecho",
                                                      !.item_id = row.item_id],
                                            Raised(SandboxHandler("Exception",
                                                       SandboxExchangeFailedMsg))))
            /\ UNCHANGED << limiter_vars, portfolio_accounts, holdings, now, appKey, nFaults, last >>

\* the insert of the connection row fails inside the helper: it raises
\* ("Failed to exchange public token" is raised again) or it returns no row
\* (False: "Failed to exchange sandbox public token")
SandboxExchangeFault(p) ==
    \E how \in {"raise", "error"} :
        LET r == [proc[p] EXCEPT !.provider_calls = @ + 1, !.faulted = TRUE,
                                 !.insert = how]
        IN  /\ proc[p].pc = "sb_exchange"
            /\ nextItem <= MaxTokens
            /\ CanFault
            /\ nFaults' = nFaults + 1
            /\ nRequests' = nRequests + 1
            /\ nextItem' = nextItem + 1
            /\ SetProc(p, Done(r, Raised(SandboxHandler("Exception",
                               IF how = "raise"
                               THEN ExchangeHandler("Exception", "")
                               ELSE SandboxExchangeFailedMsg))))
            /\ UNCHANGED << limiter_vars, plaid_access_tokens, portfolio_accounts, holdings,
                            now, appKey, last >>

\* --------------------------------------------- get_accounts_and_holdings
\* positions in _store_portfolio_data
GotoAccount(r, i) ==
    IF i <= Len(r.all_accounts)
    THEN [r EXCEPT !.pc = "acct_select", !.ai = i, !.hi = 0,
                   !.account_holdings = <<>>, !.existing_id = NoId,
                   !.account_db_id = NoId]
    ELSE [r EXCEPT !.pc = "return", !.ai = 0, !.hi = 0,
                   !.account_holdings = <<>>, !.existing_id = NoId,
                   !.account_db_id = NoId]

GotoHolding(r, j) ==
    IF j <= Len(r.account_holdings)
    THEN [r EXCEPT !.pc = "hold_select", !.hi = j, !.existing_id = NoId]
    ELSE GotoAccount(r, r.ai + 1)

\* variant: every holding of the aggregate is written under every account
AccountHoldingsUnfiltered(hs, a) == hs

\* account_holdings = [h for h in holdings if h.account_id == account.account_id]
AccountHoldings(hs, a) == SelectSeq(hs, LAMBDA h : h.account_id = a.account_id)

EnterHoldings(r, db_id) ==
    GotoHolding([r EXCEPT !.account_db_id = db_id,
                          !.account_holdings =
                              AccountHoldings(r.all_holdings, r.all_accounts[r.ai])], 1)

\* the loop over tokens_result.data is over: _store_portfolio_data starts
AfterConnection(r) ==
    IF r.ti <= Len(r.tokens)
    THEN r
    ELSE GotoAccount([r EXCEPT !.fetched = Returned(r.all_accounts, r.all_holdings,
                                                    r.all_securities)], 1)

\* select('*').eq('user_id', user_id) on plaid_access_tokens; no row raises
\* "No Plaid accounts linked for this user" inside the try block
SelectTokens(p) ==
    LET r == proc[p]
        rows == SelectSeq(plaid_access_tokens, LAMBDA t : t.user_id = r.user_id)
    IN  /\ r.pc = "select_tokens"
        /\ IF rows = <<>>
           THEN SetProc(p, Done([r EXCEPT !.in_sync = TRUE],
                                Raised(SyncHandler("Exception", NoLinkedMsg))))
           ELSE SetProc(p, [r EXCEPT !.pc = "fetch", !.in_sync = TRUE,
                                     !.tokens = rows, !.ti = 1])
        /\ UNCHANGED << limiter_vars, plaid_access_tokens, portfolio_accounts, holdings, nextItem,
                        now, appKey, nRequests, nFaults, last >>

\* the select on plaid_access_tokens raises
SelectTokensRaise(p) ==
    LET r == proc[p]
    IN  /\ r.pc = "select_tokens"
        /\ CanFault
        /\ nFaults' = nFaults + 1
        /\ SetProc(p, Done([r EXCEPT !.in_sync = TRUE, !.faulted = TRUE],
                           Raised(SyncHandler("Exception", "store"))))
        /\ UNCHANGED << limiter_vars, plaid_access_tokens, portfolio_accounts, holdings, nextItem,
                        now, appKey, nRequests, last >>

\* what the sync did with one connection: the outcome, and the access token
\* it sent with the accounts request and with the holdings request
LogEntry(rec, out, tok) ==
    [item_id |-> rec.item_id, out |-> out,
     accounts_token |-> IF out = "decrypt_fail" THEN NoStr ELSE tok,
     holdings_token |-> IF out \in {"ok", "holdings_fail"} THEN tok ELSE NoStr]

\* variant: the undecryptable connection is skipped
FetchDecryptFailSkipped(p) ==
    LET r == proc[p]
        rec == r.tokens[r.ti]
    IN  /\ r.pc = "fetch"
        /\ ~DecryptOk(appKey, rec.access_token_encrypted)
        /\ SetProc(p, AfterConnection(
               [r EXCEPT !.log = Append(@, LogEntry(rec, "decrypt_fail", NoStr)),
                         !.ti = @ + 1]))
        /\ UNCHANGED << limiter_vars, plaid_access_tokens, portfolio_accounts, holdings,
                        nextItem, now, appKey, nRequests, nFaults, last >>

\* variant: the connection that cannot be decrypted is deleted
FetchDecryptFailPurges(p) ==
    LET r == proc[p]
        rec == r.tokens[r.ti]
    IN  /\ r.pc = "fetch"
        /\ ~DecryptOk(appKey, rec.access_token_encrypted)
        /\ plaid_access_tokens' = SelectSeq(plaid_access_tokens, LAMBDA t : t # rec)
        /\ SetProc(p, Done([r EXCEPT !.log = Append(@, LogEntry(rec, "decrypt_fail", NoStr))],
                           Raised(SyncHandler("Exception", "InvalidToken"))))
        /\ UNCHANGED << limiter_vars, portfolio_accounts, holdings, nextItem, now, appKey,
                        nRequests, nFaults, last >>

\* encryption_service.decrypt raises for the current token record
FetchDecryptFail(p) ==
    LET r == proc[p]
        rec == r.tokens[r.ti]
    IN  /\ r.pc = "fetch"
        /\ ~DecryptOk(appKey, rec.access_token_encrypted)
        /\ SetProc(p, Done([r EXCEPT !.log = Append(@, LogEntry(rec, "decrypt_fail", NoStr))],
                           Raised(SyncHandler("Exception", "InvalidToken"))))
        /\ UNCHANGED << limiter_vars, plaid_access_tokens, portfolio_accounts, holdings, nextItem,
                        now, appKey, nRequests, nFaults, last >>

\* variant: the connection whose accounts fetch fails is skipped
FetchAccountsFailSkipped(p) ==
    LET r == proc[p]
        rec == r.tokens[r.ti]
    IN  /\ r.pc = "fetch"
        /\ DecryptOk(appKey, rec.access_token_encrypted)
        /\ SetProc(p, AfterConnection(
               [r EXCEPT !.provider_calls = @ + 1,
                         !.log = Append(@, LogEntry(rec, "accounts_fail", Decrypt(appKey, rec.access_token_encrypted))),
                         !.ti = @ + 1]))
        /\ UNCHANGED << limiter_vars, plaid_access_tokens, portfolio_accounts, holdings,
                        nextItem, now, appKey, nRequests, nFaults, last >>

\* client.accounts_get raises ApiException for the current token record
FetchAccountsFail(p) ==
    LET r == proc[p]
        rec == r.tokens[r.ti]
    IN  /\ r.pc = "fetch"
        /\ DecryptOk(appKey, rec.access_token_encrypted)
        /\ SetProc(p, Done([r EXCEPT !.provider_calls = @ + 1,
                         !.log = Append(@, LogEntry(rec, "accounts_fail", Decrypt(appKey, rec.access_token_encrypted)))],
                           Raised(SyncHandler("ApiException", ""))))
        /\ UNCHANGED << limiter_vars, plaid_access_tokens, portfolio_accounts, holdings, nextItem,
                        now, appKey, nRequests, nFaults, last >>

\* variant: the holdings fetch is outside the inner try, its ApiException
\* reaches the outer handler
FetchHoldingsFailRaised(p) ==
    LET r == proc[p]
        rec == r.tokens[r.ti]
    IN  /\ r.pc = "fetch"
        /\ DecryptOk(appKey, rec.access_token_encrypted)
        /\ SetProc(p, Done([r EXCEPT !.provider_calls = @ + 2,
                         !.log = Append(@, LogEntry(rec, "holdings_fail", Decrypt(appKey, rec.access_token_encrypted)))],
                           Raised(SyncHandler("ApiException", ""))))
        /\ UNCHANGED << limiter_vars, plaid_access_tokens, portfolio_accounts, holdings,
                        nextItem, now, appKey, nRequests, nFaults, last >>

\* accounts fetched, client.investments_holdings_get raises ApiException:
\* the accounts stay in the aggregate, `continue`
FetchHoldingsFail(p) ==
    LET r == proc[p]
        rec == r.tokens[r.ti]
        tok == Decrypt(appKey, rec.access_token_encrypted)
    IN  /\ r.pc = "fetch"
        /\ DecryptOk(appKey, rec.access_token_encrypted)
        /\ SetProc(p, AfterConnection(
               [r EXCEPT !.all_accounts = @ \o MapSeq(MkAccount, ProviderAccounts(tok)),
                         !.provider_calls = @ + 2,
                         !.log = Append(@, LogEntry(rec, "holdings_fail", Decrypt(appKey, rec.access_token_encrypted))),
                         !.ti = @ + 1]))
        /\ UNCHANGED << limiter_vars, plaid_access_tokens, portfolio_accounts, holdings, nextItem,
                        now, appKey, nRequests, nFaults, last >>

\* variant: only the holdings of the current connection are backfilled
FetchOkOwnHoldings(p) ==
    LET r == proc[p]
        rec == r.tokens[r.ti]
        tok == Decrypt(appKey, rec.access_token_encrypted)
        secs == r.all_securities \o MapSeq(MkSecurity, ProviderSecurities(tok))
    IN  /\ r.pc = "fetch"
        /\ DecryptOk(appKey, rec.access_token_encrypted)
        /\ SetProc(p, AfterConnection(
               [r EXCEPT !.all_accounts = @ \o MapSeq(MkAccount, ProviderAccounts(tok)),
                         !.all_holdings = @ \o Backfill(MapSeq(MkHolding, ProviderHoldings(tok)), secs),
                         !.all_securities = secs,
                         !.provider_calls = @ + 2,
                         !.log = Append(@, LogEntry(rec, "ok", Decrypt(appKey, rec.access_token_encrypted))),
                         !.ti = @ + 1]))
        /\ UNCHANGED << limiter_vars, plaid_access_tokens, portfolio_accounts, holdings,
                        nextItem, now, appKey, nRequests, nFaults, last >>

\* variant: what a connection brings is put in front of the aggregate
FetchOkPrepends(p) ==
    LET r == proc[p]
        rec == r.tokens[r.ti]
        tok == Decrypt(appKey, rec.access_token_encrypted)
        secs == MapSeq(MkSecurity, ProviderSecurities(tok)) \o r.all_securities
        hs == MapSeq(MkHolding, ProviderHoldings(tok)) \o r.all_holdings
    IN  /\ r.pc = "fetch"
        /\ DecryptOk(appKey, rec.access_token_encrypted)
        /\ SetProc(p, AfterConnection(
               [r EXCEPT !.all_accounts = MapSeq(MkAccount, ProviderAccounts(tok)) \o @,
                         !.all_holdings = Backfill(hs, secs),
                         !.all_securities = secs,
                         !.provider_calls = @ + 2,
                         !.log = Append(@, LogEntry(rec, "ok", Decrypt(appKey, rec.access_token_encrypted))),
                         !.ti = @ + 1]))
        /\ UNCHANGED << limiter_vars, plaid_access_tokens, portfolio_accounts, holdings,
                        nextItem, now, appKey, nRequests, nFaults, last >>

\* accounts, holdings and securities fetched; every holding of the aggregate
\* is backfilled from all securities seen so far
FetchOk(p) ==
    LET r == proc[p]
        rec == r.tokens[r.ti]
        tok == Decrypt(appKey, rec.access_token_encrypted)
        secs == r.all_securities \o MapSeq(MkSecurity, ProviderSecurities(tok))
        hs == r.all_holdings \o MapSeq(MkHolding, ProviderHoldings(tok))
    IN  /\ r.pc = "fetch"
        /\ DecryptOk(appKey, rec.access_token_encrypted)
        /\ SetProc(p, AfterConnection(
               [r EXCEPT !.all_accounts = @ \o MapSeq(MkAccount, ProviderAccounts(tok)),
                         !.all_holdings = Backfill(hs, secs),
                         !.all_securities = secs,
                         !.provider_calls = @ + 2,
                         !.log = Append(@, LogEntry(rec, "ok", Decrypt(appKey, rec.access_token_encrypted))),
                         !.ti = @ + 1]))
        /\ UNCHANGED << limiter_vars, plaid_access_tokens, portfolio_accounts, holdings, nextItem,
                        now, appKey, nRequests, nFaults, last >>

\* ------------------------------------------------ _store_portfolio_data
CurAccount(r) == r.all_accounts[r.ai]

CurHolding(r) == r.account_holdings[r.hi]

\* "Check if account exists"; existing.data[0] is whichever matching row the
\* store lists first
AcctSelect(p) ==
    LET r == proc[p]
        found == AccountsByKey(portfolio_accounts, r.user_id, CurAccount(r).account_id)
    IN  /\ r.pc = "acct_select"
        /\ IF found = {}
           THEN SetProc(p, [r EXCEPT !.pc = "acct_insert"])
           ELSE \E row \in found :
                    SetProc(p, [r EXCEPT !.pc = "acct_update", !.existing_id = row.id])
        /\ UNCHANGED << limiter_vars, plaid_access_tokens, portfolio_accounts, holdings, nextItem,
                        now, appKey, nRequests, nFaults, last >>

\* "Update existing account"
AcctUpdate(p) ==
    LET r == proc[p]
    IN  /\ r.pc = "acct_update"
        /\ portfolio_accounts' = UpdateById(portfolio_accounts, r.existing_id,
                                            AccountData(r.user_id, CurAccount(r), now))
        /\ SetProc(p, EnterHoldings([r EXCEPT !.writes = @ + 1], r.existing_id))
        /\ UNCHANGED << limiter_vars, plaid_access_tokens, holdings, nextItem, now,
                        appKey, nRequests, nFaults, last >>

\* variant: the insert is an atomic insert-unless-present on the key
AcctInsertIfAbsent(p) ==
    LET r == proc[p]
        found == AccountsByKey(portfolio_accounts, r.user_id, CurAccount(r).account_id)
        id == FreshAccountId(portfolio_accounts, r.user_id, CurAccount(r).account_id)
    IN  /\ r.pc = "acct_insert"
        /\ IF found = {}
           THEN /\ portfolio_accounts' = portfolio_accounts \cup
                       {NewRow(AccountData(r.user_id, CurAccount(r), now), id, now)}
                /\ SetProc(p, EnterHoldings([r EXCEPT !.writes = @ + 1], id))
           ELSE /\ UNCHANGED portfolio_accounts
                /\ \E row \in found : SetProc(p, EnterHoldings(r, row.id))
        /\ UNCHANGED << limiter_vars, plaid_access_tokens, holdings, nextItem, now, appKey,
                        nRequests, nFaults, last >>

\* "Insert new account"; the driver echoes the inserted row or it does not,
\* and then the id is re-selected
AcctInsert(p) ==
    LET r == proc[p]
        id == FreshAccountId(portfolio_accounts, r.user_id, CurAccount(r).account_id)
    IN  /\ r.pc = "acct_insert"
        /\ portfolio_accounts' = portfolio_accounts \cup
               {NewRow(AccountData(r.user_id, CurAccount(r), now), id, now)}
        /\ \E echo \in BOOLEAN :
               IF echo
               THEN SetProc(p, EnterHoldings([r EXCEPT !.writes = @ + 1], id))
               ELSE SetProc(p, [r EXCEPT !.pc = "acct_reselect", !.writes = @ + 1])
        /\ UNCHANGED << limiter_vars, plaid_access_tokens, holdings, nextItem, now, appKey,
                        nRequests, nFaults, last >>

\* variant: without an id the loop goes on to the holdings of the account
AcctReselectKeepsGoing(p) ==
    LET r == proc[p]
        found == AccountsByKey(portfolio_accounts, r.user_id, CurAccount(r).account_id)
    IN  /\ r.pc = "acct_reselect"
        /\ IF found = {}
           THEN SetProc(p, EnterHoldings(r, NoId))
           ELSE \E row \in found : SetProc(p, EnterHoldings(r, row.id))
        /\ UNCHANGED << limiter_vars, plaid_access_tokens, portfolio_accounts, holdings, nextItem,
                        now, appKey, nRequests, nFaults, last >>

\* the re-select .limit(1) by (user_id, plaid_account_id); without a row the
\* account is skipped with its holdings (`continue`)
AcctReselect(p) ==
    LET r == proc[p]
        found == AccountsByKey(portfolio_accounts, r.user_id, CurAccount(r).account_id)
    IN  /\ r.pc = "acct_reselect"
        /\ IF found = {}
           THEN SetProc(p, GotoAccount(r, r.ai + 1))
           ELSE \E row \in found : SetProc(p, EnterHoldings(r, row.id))
        /\ UNCHANGED << limiter_vars, plaid_access_tokens, portfolio_accounts, holdings, nextItem,
                        now, appKey, nRequests, nFaults, last >>

\* "Check if holding exists"
HoldSelect(p) ==
    LET r == proc[p]
        found == HoldingsByKey(holdings, r.account_db_id, StoredSymbol(CurHolding(r)))
    IN  /\ r.pc = "hold_select"
        /\ IF found = {}
           THEN SetProc(p, [r EXCEPT !.pc = "hold_insert"])
           ELSE \E row \in found :
                    SetProc(p, [r EXCEPT !.pc = "hold_update", !.existing_id = row.id])
        /\ UNCHANGED << limiter_vars, plaid_access_tokens, portfolio_accounts, holdings, nextItem,
                        now, appKey, nRequests, nFaults, last >>

\* "Update existing holding"
HoldUpdate(p) ==
    LET r == proc[p]
    IN  /\ r.pc = "hold_update"
        /\ holdings' = UpdateById(holdings, r.existing_id,
                                  HoldingData(r.account_db_id, CurHolding(r), now))
        /\ SetProc(p, GotoHolding([r EXCEPT !.writes = @ + 1], r.hi + 1))
        /\ UNCHANGED << limiter_vars, plaid_access_tokens, portfolio_accounts, nextItem,
                        now, appKey, nRequests, nFaults, last >>

\* "Insert new holding"
HoldInsert(p) ==
    LET r == proc[p]
        id == FreshHoldingId(holdings, r.account_db_id, StoredSymbol(CurHolding(r)))
    IN  /\ r.pc = "hold_insert"
        /\ holdings' = holdings \cup
               {NewRow(HoldingData(r.account_db_id, CurHolding(r), now), id, now)}
        /\ SetProc(p, GotoHolding([r EXCEPT !.writes = @ + 1], r.hi + 1))
        /\ UNCHANGED << limiter_vars, plaid_access_tokens, portfolio_accounts, nextItem, now,
                        appKey, nRequests, nFaults, last >>

StorePcs == {"acct_select", "acct_update", "acct_insert", "acct_reselect",
             "hold_select", "hold_update", "hold_insert"}

\* a write comes back with .error set and no data: it is logged, nothing is
\* written, and the loop goes on
StoreWriteError(p) ==
    LET r == [proc[p] EXCEPT !.faulted = TRUE]
    IN  /\ r.pc \in {"acct_update", "acct_insert", "hold_update", "hold_insert"}
        /\ CanFault
        /\ nFaults' = nFaults + 1
        /\ SetProc(p, CASE r.pc = "acct_update" -> EnterHoldings(r, r.existing_id)
                        [] r.pc = "acct_insert" -> [r EXCEPT !.pc = "acct_reselect"]
                        [] OTHER -> GotoHolding(r, r.hi + 1))
        /\ UNCHANGED << limiter_vars, plaid_access_tokens, portfolio_accounts, holdings, nextItem,
                        now, appKey, nRequests, last >>

\* variant: _store_portfolio_data lets the exception through to the handler
\* of get_accounts_and_holdings
StoreRaisePropagated(p) ==
    LET r == proc[p]
    IN  /\ r.pc \in StorePcs
        /\ CanFault
        /\ nFaults' = nFaults + 1
        /\ SetProc(p, Done([r EXCEPT !.faulted = TRUE, !.store_raised = TRUE],
                           Raised(SyncHandler("Exception", "store"))))
        /\ UNCHANGED << limiter_vars, plaid_access_tokens, portfolio_accounts, holdings,
                        nextItem, now, appKey, nRequests, last >>

\* any store call of the upsert raises: `except Exception` logs it and
\* _store_portfolio_data returns normally
StoreRaise(p) ==
    LET r == proc[p]
    IN  /\ r.pc \in StorePcs
        /\ CanFault
        /\ nFaults' = nFaults + 1
        /\ SetProc(p, [r EXCEPT !.pc = "return", !.faulted = TRUE, !.store_raised = TRUE])
        /\ UNCHANGED << limiter_vars, plaid_access_tokens, portfolio_accounts, holdings, nextItem,
                        now, appKey, nRequests, last >>

\* return PlaidAccountsResponse(accounts, holdings, securities)
Return(p) ==
    LET r == proc[p]
    IN  /\ r.pc = "return"
        /\ SetProc(p, Done(r, Returned(r.all_accounts, r.all_holdings, r.all_securities)))
        /\ UNCHANGED << limiter_vars, plaid_access_tokens, portfolio_accounts, holdings, nextItem,
                        now, appKey, nRequests, nFaults, last >>

\* the response is sent and the worker is free again; the model records what
\* the sync saw and left behind, and the clock ticks after a request that
\* went to the store
Finish(p) ==
    LET r == proc[p]
    IN  /\ r.pc = "done"
        /\ SetProc(p, IdleProc)
        /\ last' = IF ~r.in_sync
                   THEN last
                   ELSE [valid |-> TRUE, user_id |-> r.user_id, log |-> r.log,
                         faulted |-> r.faulted,
                         accounts |-> portfolio_accounts, holdings |-> holdings]
        /\ now' = IF r.in_sync \/ r.insert # "" THEN now + 1 ELSE now
        /\ UNCHANGED << limiter_vars, plaid_access_tokens, portfolio_accounts, holdings,
                        nextItem, appKey, nRequests, nFaults >>

\* ------------------------------------------------------- specifications
\* the steps of a sync
SyncStep(p) ==
    \/ SelectTokens(p)
    \/ FetchAccountsFail(p)
    \/ FetchHoldingsFail(p)
    \/ FetchOk(p)
    \/ AcctSelect(p)
    \/ AcctUpdate(p)
    \/ AcctInsert(p)
    \/ AcctReselect(p)
    \/ HoldSelect(p)
    \/ HoldUpdate(p)
    \/ HoldInsert(p)
    \/ Return(p)

\* the store faults
Fault(p) ==
    \/ ExchangeStoreFault(p)
    \/ SelectTokensRaise(p)
    \/ StoreWriteError(p)
    \/ StoreRaise(p)

\* one worker: requests never overlap
Next ==
    \/ RotateKey
    \/ GetAccounts(1) \/ SyncAccounts(1)
    \/ CreateLinkToken(1) \/ Unauthenticated(1)
    \/ ExchangeOk(1) \/ ExchangeRejected(1) \/ ExchangeNoEcho(1)
    \/ SyncStep(1) \/ FetchDecryptFail(1)
    \/ Fault(1)
    \/ Finish(1)

Spec == Init /\ [][Next]_vars

\* the steps of the sandbox helper
SandboxStep(p) ==
    \/ SandboxSearch(p)
    \/ SandboxToken(p)
    \/ SandboxExchange(p)
    \/ SandboxExchangeFault(p)

\* one worker of a deployment whose connections are made by the sandbox
\* helper; the application secret stays the same
NextSandbox ==
    \/ GetAccounts(1)
    \/ CreateLinkToken(1)
    \/ ExchangeRejected(1)
    \/ SandboxBegin(1) \/ SandboxStep(1)
    \/ SyncStep(1)
    \/ Fault(1)
    \/ Finish(1)

SpecSandbox == Init /\ [][NextSandbox]_vars

\* ------------------------------------------------- RateLimitMiddleware
\* client_requests is a dict from client address to the list of the times of
\* its recorded requests; the model keeps it as the set of its items
HasClient(items, ip) == \E e \in items : e[1] = ip

RequestsOf(items, ip) == (CHOOSE e \in items : e[1] = ip)[2]

SetRequests(items, ip, reqs) == {e \in items : e[1] # ip} \cup {<< ip, reqs >>}

\* [req_time for req_time in requests if req_time > current_time - window_seconds]
Recent(reqs, t) == SelectSeq(reqs, LAMBDA req_time : req_time > t - window_seconds)

\* "Clean old entries": an address stays while one of its times is recent
CleanOld(items, t) ==
    {e \in items : \E i \in 1..Len(e[2]) : e[2][i] > t - window_seconds}

\* "Check rate limit" on the cleaned dict
Limited(items, ip, t) ==
    /\ HasClient(CleanOld(items, t), ip)
    /\ Len(Recent(RequestsOf(CleanOld(items, t), ip), t)) >= max_requests

Arrival(ip, t, limited) ==
    [client |-> ip, time |-> t, answer |-> IF limited THEN "429" ELSE "call_next"]

\* variant: the limit is compared with > instead of >=
DispatchOffByOne(ip) ==
    LET cleaned == CleanOld(client_requests, clock)
        recent == IF HasClient(cleaned, ip)
                  THEN Recent(RequestsOf(cleaned, ip), clock) ELSE << >>
        limited == HasClient(cleaned, ip) /\ Len(recent) > max_requests
    IN  /\ Len(history) < MaxArrivals
        /\ client_requests' = IF limited THEN cleaned
                              ELSE SetRequests(cleaned, ip, Append(recent, clock))
        /\ history' = Append(history, Arrival(ip, clock, limited))
        /\ UNCHANGED << clock, app_vars >>

\* variant: a rejected request is recorded like one that was let through
DispatchRecordsRejected(ip) ==
    LET cleaned == CleanOld(client_requests, clock)
        recent == IF HasClient(cleaned, ip)
                  THEN Recent(RequestsOf(cleaned, ip), clock) ELSE << >>
        limited == Limited(client_requests, ip, clock)
    IN  /\ Len(history) < MaxArrivals
        /\ client_requests' = SetRequests(cleaned, ip, Append(recent, clock))
        /\ history' = Append(history, Arrival(ip, clock, limited))
        /\ UNCHANGED << clock, app_vars >>

\* dispatch: a request of client address ip reaches the middleware at time
\* clock.  Nothing is awaited before the answer is decided, so the handler
\* up to call_next is one step.
Dispatch(ip) ==
    LET cleaned == CleanOld(client_requests, clock)
        recent == IF HasClient(cleaned, ip)
                  THEN Recent(RequestsOf(cleaned, ip), clock) ELSE << >>
        limited == Limited(client_requests, ip, clock)
    IN  /\ Len(history) < MaxArrivals
        /\ client_requests' = IF limited THEN cleaned
                              ELSE SetRequests(cleaned, ip, Append(recent, clock))
        /\ history' = Append(history, Arrival(ip, clock, limited))
        /\ UNCHANGED << clock, app_vars >>

\* time passes
Tick ==
    /\ clock < MaxTime
    /\ clock' = clock + 1
    /\ UNCHANGED << client_requests, history, app_vars >>

\* the limiter of one server process, in front of the application
NextRate ==
    \/ \E ip \in Clients : Dispatch(ip)
    \/ Tick

SpecRate == Init /\ [][NextRate]_vars

\* two workers on the same store, each serving one request: the two requests
\* interleave at every round trip
NextConc == \E p \in Procs : GetAccounts(p) \/ ExchangeOk(p) \/ SyncStep(p)

SpecConc == Init /\ [][NextConc]_vars

\* ------------------------------------------- the upsert as one function
\* _store_portfolio_data run alone on the tables `st` (no other writer, no
\* store fault), as a function from tables to tables.
RECURSIVE StoreHoldings(_, _, _, _, _)
StoreHoldings(hs, db_id, todo, j, t) ==
    IF j > Len(todo) THEN hs
    ELSE LET data == HoldingData(db_id, todo[j], t)
             found == HoldingsByKey(hs, db_id, data.symbol)
         IN  IF found # {}
             THEN StoreHoldings(UpdateById(hs, (CHOOSE row \in found : TRUE).id, data),
                                db_id, todo, j + 1, t)
             ELSE StoreHoldings(hs \cup {NewRow(data, FreshHoldingId(hs, db_id, data.symbol), t)},
                                db_id, todo, j + 1, t)

RECURSIVE StoreAccounts(_, _, _, _, _, _)
StoreAccounts(st, user, accs, hs, i, t) ==
    IF i > Len(accs) THEN st
    ELSE LET data == AccountData(user, accs[i], t)
             found == AccountsByKey(st.accounts, user, accs[i].account_id)
             db_id == IF found # {} THEN (CHOOSE row \in found : TRUE).id
                      ELSE FreshAccountId(st.accounts, user, accs[i].account_id)
             accounts2 == IF found # {} THEN UpdateById(st.accounts, db_id, data)
                          ELSE st.accounts \cup {NewRow(data, db_id, t)}
         IN  StoreAccounts([accounts |-> accounts2,
                            holdings |-> StoreHoldings(st.holdings, db_id,
                                             AccountHoldings(hs, accs[i]), 1, t)],
                           user, accs, hs, i + 1, t)

StorePortfolioData(st, user, accs, hs, t) == StoreAccounts(st, user, accs, hs, 1, t)

\* ------------------------------------------------- what a sync should see
\* the aggregate of the connections a sync went through, from its log
RECURSIVE LogAccounts(_)
LogAccounts(log) ==
    IF log = <<>> THEN <<>>
    ELSE LogAccounts(SubSeq(log, 1, Len(log) - 1)) \o
         (IF log[Len(log)].out \in {"ok", "holdings_fail"}
          THEN MapSeq(MkAccount, ProviderAccounts(TokenOfItemId(log[Len(log)].item_id)))
          ELSE <<>>)

RECURSIVE LogHoldings(_)
LogHoldings(log) ==
    IF log = <<>> THEN <<>>
    ELSE LogHoldings(SubSeq(log, 1, Len(log) - 1)) \o
         (IF log[Len(log)].out = "ok"
          THEN MapSeq(MkHolding, ProviderHoldings(TokenOfItemId(log[Len(log)].item_id)))
          ELSE <<>>)

RECURSIVE LogSecurities(_)
LogSecurities(log) ==
    IF log = <<>> THEN <<>>
    ELSE LogSecurities(SubSeq(log, 1, Len(log) - 1)) \o
         (IF log[Len(log)].out = "ok"
          THEN MapSeq(MkSecurity, ProviderSecurities(TokenOfItemId(log[Len(log)].item_id)))
          ELSE <<>>)

\* a holding as fetched, before any backfill
Unfilled(h) == [h EXCEPT !.name = "Unknown Security", !.symbol = NoStr]

Outs(log) == {log[i].out : i \in 1..Len(log)}

AtDone(p) == proc[p].pc = "done" /\ proc[p].in_sync

\* a row without its update timestamp
StripUpdated(row) == [f \in (DOMAIN row) \ {"updated_at"} |-> row[f]]

StripAll(table) == {StripUpdated(row) : row \in table}

AccountKey(row) == <<row.user_id, row.plaid_account_id>>

HoldingKey(row) == <<row.account_id, row.symbol>>

UniqueAccountKeys ==
    \A r1, r2 \in portfolio_accounts : AccountKey(r1) = AccountKey(r2) => r1 = r2

UniqueHoldingKeys ==
    \A r1, r2 \in holdings : HoldingKey(r1) = HoldingKey(r2) => r1 = r2

\* the users whose account row a holding row hangs under
OwnerOfHolding(table, h) == {a.user_id : a \in {a \in table : a.id = h.account_id}}

\* ================================================================ claims
\* Under Spec the requests are served by worker 1, one after the other.
Me == proc[1]

\* C1: when a sync of a user follows a sync of the same user that saw the
\* same provider data, and the store worked in both, the account rows and the
\* holding rows after the second sync are those after the first one, update
\* timestamps aside: no row is added, no key is duplicated.
SecondSyncOfSameData ==
    /\ AtDone(1)
    /\ last.valid
    /\ last.user_id = Me.user_id
    /\ last.log = Me.log
    /\ ~last.faulted
    /\ ~Me.faulted

IdempotentSync ==
    SecondSyncOfSameData =>
        /\ StripAll(portfolio_accounts) = StripAll(last.accounts)
        /\ StripAll(holdings) = StripAll(last.holdings)
        /\ Cardinality(portfolio_accounts) = Cardinality(last.accounts)
        /\ Cardinality(holdings) = Cardinality(last.holdings)

IdempotentSyncWitness ==
    /\ SecondSyncOfSameData
    /\ Me.result.kind = "return"
    /\ Me.writes > 0
    /\ \E row \in portfolio_accounts : row.updated_at # row.created_at
    /\ \E row \in holdings : row.symbol = "UNKNOWN" /\ row.updated_at # row.created_at

HoldingsFailureTolerated ==
    (/\ AtDone(1)
     /\ "holdings_fail" \in Outs(Me.log)
     /\ Outs(Me.log) \subseteq {"ok", "holdings_fail"})
    => (/\ Me.result.kind = "return"
        /\ Len(Me.log) = Len(Me.tokens)
        /\ Me.result.accounts = LogAccounts(Me.log)
        /\ MapSeq(Unfilled, Me.result.holdings) = LogHoldings(Me.log)
        /\ Me.result.securities = LogSecurities(Me.log))

HoldingsFailureToleratedWitness ==
    /\ AtDone(1)
    /\ Len(Me.log) = 2
    /\ Me.log[1].out = "holdings_fail"
    /\ Me.log[2].out = "ok"
    /\ Me.result.kind = "return"
    /\ Len(Me.result.accounts) = 3
    /\ Len(Me.result.holdings) = 2

NoConnectionsRaisesNoLinked ==
    (AtDone(1) /\ ~Me.faulted /\ Me.tokens = <<>>)
    => (/\ Me.result.kind = "raise"
        /\ Me.result.msg = NoLinkedMsg
        /\ Me.log = <<>>
        /\ Me.writes = 0)

\* C6: GET /accounts and POST /sync answer 404 to a sync of a user without
\* connections and 500 to every other failed sync.
BoundaryStatus ==
    (AtDone(1) /\ Me.ep \in {"accounts", "sync"} /\ Me.result.kind = "raise")
    => (Me.status = IF ~Me.faulted /\ Me.tokens = <<>> THEN 404 ELSE 500)

\* C7: when a store call of the upsert raises, sync still returns, and what
\* it returns is the aggregate of the fetched connections, the same function
\* of the provider data that a sync with a working store returns.
LogAggregate(log) ==
    Returned(LogAccounts(log), Backfill(LogHoldings(log), LogSecurities(log)),
             LogSecurities(log))

PersistenceBestEffort ==
    /\ (AtDone(1) /\ Me.store_raised) =>
           (Me.result.kind = "return" /\ Me.result = LogAggregate(Me.log))
    /\ (AtDone(1) /\ ~Me.faulted /\ Me.result.kind = "return") =>
           Me.result = LogAggregate(Me.log)

PersistenceBestEffortWitness ==
    /\ AtDone(1)
    /\ Me.store_raised
    /\ Len(Me.log) = 2
    /\ Me.writes > 0
    /\ Me.result.holdings # <<>>

\* C8: from the empty store, after any sequence of syncs that do not overlap
\* and meet no store fault, no two account rows share (user_id,
\* plaid_account_id) and no two holding rows share (account_id, symbol).
KeyUniqueness == nFaults = 0 => (UniqueAccountKeys /\ UniqueHoldingKeys)

KeyUniquenessWitness ==
    /\ nFaults = 0
    /\ nRequests = 2
    /\ Me.pc = "idle"
    /\ \E r1, r2 \in portfolio_accounts :
           r1.user_id # r2.user_id /\ r1.plaid_account_id = r2.plaid_account_id
    /\ \E h1, h2 \in holdings :
           OwnerOfHolding(portfolio_accounts, h1) # OwnerOfHolding(portfolio_accounts, h2)

\* Under SpecConc two requests are in flight on the same store.
\* C9: the insert that follows a negative existence check is unconditional:
\* it adds a row whether or not a row with the same key has appeared since
\* the check.  Two syncs of one user that both check before either inserts
\* therefore leave two rows with one key (RaceLeavesDuplicates).
InsertStep(p) ==
    LET r == proc[p]
    IN  /\ (r.pc = "acct_insert" /\ proc'[p].pc # "acct_insert") =>
               Cardinality(AccountsByKey(portfolio_accounts', r.user_id,
                                         CurAccount(r).account_id))
               = Cardinality(AccountsByKey(portfolio_accounts, r.user_id,
                                           CurAccount(r).account_id)) + 1
        /\ (r.pc = "hold_insert" /\ proc'[p].pc # "hold_insert") =>
               Cardinality(HoldingsByKey(holdings', r.account_db_id,
                                         StoredSymbol(CurHolding(r))))
               = Cardinality(HoldingsByKey(holdings, r.account_db_id,
                                           StoredSymbol(CurHolding(r)))) + 1

UnprotectedUpsert == [][\A p \in Procs : InsertStep(p)]_vars

RaceLeavesDuplicates ==
    /\ proc[1].user_id = proc[2].user_id
    /\ ~UniqueAccountKeys
    /\ ~UniqueHoldingKeys

\* C10: two concurrent syncs of different users.  Each returns the aggregate
\* of its own user's connections; each step writes only rows of the user it
\* serves; and when both are over the store is what the two syncs leave when
\* run one after the other, also when both users expose the same external
\* account id.
EmptyStore == [accounts |-> {}, holdings |-> {}]

OneAfterTheOther ==
    StorePortfolioData(
        StorePortfolioData(EmptyStore, proc[1].user_id, proc[1].result.accounts,
                           proc[1].result.holdings, now),
        proc[2].user_id, proc[2].result.accounts, proc[2].result.holdings, now)

OwnAggregate(p) ==
    LET r == proc[p]
    IN  (AtDone(p) /\ r.result.kind = "return") =>
            /\ r.result = LogAggregate(r.log)
            /\ Len(r.log) = Len(r.tokens)
            /\ \A i \in 1..Len(r.tokens) :
                   /\ r.tokens[i].user_id = r.user_id
                   /\ r.log[i].item_id = r.tokens[i].item_id
            /\ \A i \in 1..Len(plaid_access_tokens) :
                   plaid_access_tokens[i].user_id # r.user_id =>
                       \A j \in 1..Len(r.log) :
                           r.log[j].item_id # plaid_access_tokens[i].item_id

IsolationInv ==
    /\ \A p \in Procs : OwnAggregate(p)
    /\ (AtDone(1) /\ AtDone(2) /\ proc[1].user_id # proc[2].user_id) =>
           [accounts |-> portfolio_accounts, holdings |-> holdings] = OneAfterTheOther

IsolationStep ==
    \A p \in Procs :
        proc'[p] # proc[p] =>
            /\ \A row \in (portfolio_accounts' \ portfolio_accounts) \cup
                          (portfolio_accounts \ portfolio_accounts') :
                   row.user_id = proc[p].user_id
            /\ \A row \in (holdings' \ holdings) \cup (holdings \ holdings') :
                   OwnerOfHolding(portfolio_accounts', row) = {proc[p].user_id}

CrossUserIsolation == []IsolationInv /\ [][IsolationStep]_vars

CrossUserIsolationWitness ==
    /\ AtDone(1) /\ AtDone(2)
    /\ proc[1].user_id # proc[2].user_id
    /\ proc[1].result.kind = "return" /\ proc[2].result.kind = "return"
    /\ \E r1, r2 \in portfolio_accounts :
           r1.user_id # r2.user_id /\ r1.plaid_account_id = r2.plaid_account_id
    /\ \E h1, h2 \in holdings :
           OwnerOfHolding(portfolio_accounts, h1) # OwnerOfHolding(portfolio_accounts, h2)

\* C11: after a sync that met no store fault, for every account of the
\* aggregate that has holdings without resolved symbol, each stored row of
\* that account has exactly one holding row with symbol "UNKNOWN", and its
\* fields are those of the last such holding in aggregate order.
Unresolved(hs, ext) ==
    SelectSeq(hs, LAMBDA h : h.account_id = ext /\ ~Truthy(h.symbol))

SentinelRows(a) == {row \in holdings : row.account_id = a.id /\ row.symbol = "UNKNOWN"}

CarriesHolding(row, h) ==
    /\ row.shares = h.quantity
    /\ row.current_price = h.price
    /\ row.total_value = h.value
    /\ row.security_name = h.name
    /\ row.updated_at = now

SentinelCollision ==
    (AtDone(1) /\ ~Me.faulted /\ Me.result.kind = "return") =>
        \A i \in 1..Len(Me.result.accounts) :
            LET ext == Me.result.accounts[i].account_id
                un == Unresolved(Me.result.holdings, ext)
            IN  un # <<>> =>
                    \A a \in AccountsByKey(portfolio_accounts, Me.user_id, ext) :
                        /\ Cardinality(SentinelRows(a)) = 1
                        /\ \A row \in SentinelRows(a) : CarriesHolding(row, un[Len(un)])

SentinelCollisionWitness ==
    /\ AtDone(1) /\ ~Me.faulted /\ Me.result.kind = "return"
    /\ LET un == Unresolved(Me.result.holdings, "acc_A")
       IN  /\ Len(un) >= 2
           /\ un[1].quantity # un[Len(un)].quantity
           /\ \E a \in AccountsByKey(portfolio_accounts, Me.user_id, "acc_A") :
                  \E row \in SentinelRows(a) :
                      /\ CarriesHolding(row, un[Len(un)])
                      /\ row.created_at = row.updated_at

\* C12: in the aggregate a sync returns, a holding whose security id is the
\* id of a security of the returned list carries the symbol and the name of
\* such a security, also when the security came with a later connection
\* than the holding; any other holding has no symbol and the name
\* "Unknown Security".
MatchingSecurities(secs, h) ==
    {j \in 1..Len(secs) : Truthy(h.security_id) /\ secs[j].security_id = h.security_id}

SecurityBackfill ==
    (AtDone(1) /\ Me.result.kind = "return") =>
        \A i \in 1..Len(Me.result.holdings) :
            LET h == Me.result.holdings[i]
                secs == Me.result.securities
            IN  IF MatchingSecurities(secs, h) # {}
                THEN \E j \in MatchingSecurities(secs, h) :
                         h.symbol = secs[j].symbol /\ h.name = secs[j].name
                ELSE h.symbol = NoStr /\ h.name = "Unknown Security"

\* the holding of "sec_9" came with the first connection, its security with
\* the second; the holding without security id matches nothing
SecurityBackfillWitness ==
    /\ AtDone(1) /\ Me.result.kind = "return"
    /\ Len(Me.log) = 2
    /\ Me.log[1].out = "ok" /\ Me.log[2].out = "ok"
    /\ "sec_9" \notin {ProviderSecurities(TokenOfItemId(Me.log[1].item_id))[j].security_id :
                          j \in 1..Len(ProviderSecurities(TokenOfItemId(Me.log[1].item_id)))}
    /\ \E i \in 1..Len(ProviderHoldings(TokenOfItemId(Me.log[1].item_id))) :
           /\ Me.result.holdings[i].security_id = "sec_9"
           /\ Me.result.holdings[i].symbol = "BND"
    /\ \E i \in 1..Len(Me.result.holdings) :
           /\ MatchingSecurities(Me.result.securities, Me.result.holdings[i]) = {}
           /\ Me.result.holdings[i].name = "Unknown Security"

\* C13: when several securities of the returned list share an id, every
\* holding of that id carries the symbol and the name of the last of them in
\* fetch order, whichever occurrence it was filled from before.
LastMatching(secs, h) ==
    CHOOSE j \in MatchingSecurities(secs, h) :
        \A k \in MatchingSecurities(secs, h) : k <= j

BackfillLastWins ==
    (AtDone(1) /\ Me.result.kind = "return") =>
        \A i \in 1..Len(Me.result.holdings) :
            LET h == Me.result.holdings[i]
                secs == Me.result.securities
            IN  MatchingSecurities(secs, h) # {} =>
                    /\ h.symbol = secs[LastMatching(secs, h)].symbol
                    /\ h.name = secs[LastMatching(secs, h)].name

\* "sec_1" is "AAPL" in the first connection and "APLE" in the second;
\* "sec_9" is listed twice by the second connection
BackfillLastWinsWitness ==
    /\ AtDone(1) /\ Me.result.kind = "return"
    /\ Len(Me.log) = 2
    /\ Me.log[1].out = "ok" /\ Me.log[2].out = "ok"
    /\ Me.result.securities[1].security_id = "sec_1"
    /\ Me.result.securities[1].symbol = "AAPL"
    /\ Me.result.holdings[1].security_id = "sec_1"
    /\ Me.result.holdings[1].symbol = "APLE"
    /\ \E i \in 1..Len(Me.result.holdings) :
           /\ Cardinality(MatchingSecurities(Me.result.securities, Me.result.holdings[i])) = 2
           /\ Me.result.holdings[i].security_id = "sec_9"
           /\ Me.result.holdings[i].name = "Bond Fund"

\* C14: every holding row a sync writes has average_cost = cost_basis /
\* quantity when the holding has a cost basis and a positive quantity and 0
\* otherwise, and gain_loss = market value - cost basis with an absent cost
\* basis counted as 0.  Amounts are in cents, average_cost is a fraction
\* <<numerator, denominator>>.
DerivedOk(row, h) ==
    /\ IF h.cost_basis # <<>> /\ h.quantity > 0
       THEN /\ row.avg_cost[2] > 0
            /\ row.avg_cost[1] * h.quantity = h.cost_basis[1] * row.avg_cost[2]
       ELSE row.avg_cost = <<0, 1>>
    /\ row.gain_loss = h.value - (IF h.cost_basis = <<>> THEN 0 ELSE h.cost_basis[1])

DerivedFields == [][\A row \in holdings' \ holdings : DerivedOk(row, CurHolding(Me))]_vars

\* quantity 10, cost basis 1400.00, value 1502.50 stored with average cost
\* 140.00 and gain 102.50, next to a row of quantity 0 with a cost basis
DerivedFieldsWitness ==
    /\ \E row \in holdings :
           row.shares = 10 /\ row.avg_cost = <<14000, 1>> /\ row.gain_loss = 10250
    /\ \E row \in holdings :
           row.shares = 0 /\ row.avg_cost = <<0, 1>> /\ row.gain_loss = -500
    /\ \E row \in holdings :
           row.shares = 4 /\ row.avg_cost = <<0, 1>> /\ row.gain_loss = 10000

\* C15: the secret column of every connection row holds an output of encrypt
\* and never the access token the exchange returned, and no text column of a
\* connection, account or holding row holds an access token.
TextColumns(table, cols) == {row[c] : row \in table, c \in cols}

ConnectionRows == {plaid_access_tokens[i] : i \in 1..Len(plaid_access_tokens)}

SecretConfidentiality ==
    /\ \A row \in ConnectionRows :
           /\ \E key \in Keys, tok \in AccessTokens :
                  row.access_token_encrypted = Encrypt(key, tok)
           /\ row.access_token_encrypted # TokenOfItemId(row.item_id)
    /\ TextColumns(ConnectionRows, {"user_id", "item_id", "access_token_encrypted"})
           \cap AccessTokens = {}
    /\ TextColumns(portfolio_accounts, {"user_id", "account_name", "account_type",
                                        "plaid_account_id"}) \cap AccessTokens = {}
    /\ TextColumns(holdings, {"symbol", "security_name"}) \cap AccessTokens = {}

\* a sync has decrypted a stored secret, used the access token and written
\* account and holding rows
SecretConfidentialityWitness ==
    /\ AtDone(1) /\ Me.result.kind = "return"
    /\ \E i \in 1..Len(Me.log) : Me.log[i].holdings_token \in AccessTokens
    /\ Len(plaid_access_tokens) = 2
    /\ portfolio_accounts # {}
    /\ holdings # {}

\* C16: as long as the application secret is the one the connections were
\* stored under, every stored secret decrypts to the access token the
\* exchange returned for that item, no sync meets a decrypt failure, and the
\* accounts request and the holdings request of a connection carry exactly
\* that access token.
SameApplicationSecret == appKey = "k1"

Unauth(r) == r.auth \in {"missing", "invalid"}

AuthInv ==
    Unauth(Me) =>
        /\ Me.pc = "done"
        /\ Me.status \in {401, 403}
        /\ Me.provider_calls = 0
        /\ ~Me.in_sync /\ Me.tokens = <<>> /\ Me.log = <<>>
        /\ Me.writes = 0
        /\ Me.result = NoResult

AuthStep ==
    (Unauth(proc[1]) \/ Unauth(proc'[1])) =>
        UNCHANGED << plaid_access_tokens, portfolio_accounts, holdings, nextItem >>

AuthenticationFirst == []AuthInv /\ [][AuthStep]_vars

\* a sync with an unknown token is refused while the store holds a connection
\* and portfolio rows
AuthenticationFirstWitness ==
    /\ Me.pc = "done" /\ Me.ep = "sync" /\ Me.auth = "invalid" /\ Me.status = 401
    /\ plaid_access_tokens # <<>>
    /\ portfolio_accounts # {}

\* C18 as stated: when the insert of the connection row raises or returns no
\* row, POST /exchange-token reports an error and never success.
LinkStorageFailed ==
    Me.pc = "done" /\ Me.ep = "exchange" /\ Me.insert \in {"raise", "error", "noecho"}

LinkStorageFailureIsError ==
    LinkStorageFailed =>
        /\ Me.result.kind = "raise"
        /\ Me.status >= 400
        /\ ~Me.success

\* C18 as amended: when the insert raises, exchange_public_token raises the
\* generic exchange error and the endpoint answers 500; when the insert
\* returns no row, exchange_public_token returns False without raising and
\* the endpoint answers 200 with success=False; in both cases success is not
\* reported and no initial sync runs.
LinkStorageFailureReported ==
    LinkStorageFailed =>
        /\ ~Me.success
        /\ ~Me.in_sync /\ Me.log = <<>>
        /\ IF Me.insert = "raise"
           THEN Me.result = Raised(ExchangeFailedMsg) /\ Me.status = 500
           ELSE Me.result = NoResult /\ Me.status = 200

LinkStorageFailureReportedWitness ==
    /\ Me.pc = "done" /\ Me.ep = "exchange"
    /\ Me.insert = "error"
    /\ Me.status = 200 /\ ~Me.success
    /\ plaid_access_tokens = <<>>

\* C19: no step of a sync changes the connection table, whether the sync
\* succeeds, meets a provider failure, a decrypt failure or a store failure;
\* when it is over, the user's connections are the rows it read.
OwnConnections(u) == SelectSeq(plaid_access_tokens, LAMBDA t : t.user_id = u)

ConnectionsAsRead == (Me.in_sync /\ Me.tokens # <<>>) => OwnConnections(Me.user_id) = Me.tokens

SyncStepKeepsConnections ==
    (proc[1].pc # "idle") => UNCHANGED plaid_access_tokens

SyncKeepsConnections == []ConnectionsAsRead /\ [][SyncStepKeepsConnections]_vars

\* a sync that met a decrypt failure on one of two connections
SyncKeepsConnectionsWitness ==
    /\ AtDone(1)
    /\ "decrypt_fail" \in Outs(Me.log)
    /\ Len(plaid_access_tokens) = 2
    /\ portfolio_accounts # {}

\* C20: the connection table changes only in a POST /exchange-token whose
\* provider exchange succeeded, by one appended row that belongs to the
\* caller; every exchange that reports success has appended its row; a
\* rejected exchange raises the converted provider error and leaves the
\* table as it was.
Rejected(r) == r.ep = "exchange" /\ r.auth = "valid" /\ r.insert = ""

ConnectionCreatedStep ==
    plaid_access_tokens' # plaid_access_tokens =>
        /\ proc[1].pc = "idle"
        /\ proc'[1].ep = "exchange" /\ proc'[1].auth = "valid"
        /\ nextItem' = nextItem + 1
        /\ Len(plaid_access_tokens') = Len(plaid_access_tokens) + 1
        /\ SubSeq(plaid_access_tokens', 1, Len(plaid_access_tokens)) = plaid_access_tokens
        /\ plaid_access_tokens'[Len(plaid_access_tokens')].user_id = proc'[1].user_id
        /\ plaid_access_tokens'[Len(plaid_access_tokens')].item_id = ItemId(nextItem)

ExchangeStep ==
    /\ (proc[1].pc = "idle" /\ proc'[1].success) =>
           Len(plaid_access_tokens') = Len(plaid_access_tokens) + 1
    /\ (proc[1].pc = "idle" /\ Rejected(proc'[1])) =>
           /\ UNCHANGED plaid_access_tokens
           /\ proc'[1].pc = "done"
           /\ proc'[1].result = Raised(PlaidErrorMsg)
           /\ ~proc'[1].success

ConnectionOnlyByExchange == [][ConnectionCreatedStep /\ ExchangeStep]_vars

\* the second user links an item while the first user's connection exists
ConnectionOnlyByExchangeWitness ==
    /\ Me.ep = "exchange" /\ Me.success
    /\ Len(plaid_access_tokens) = 2
    /\ plaid_access_tokens[1].user_id # Me.user_id
    /\ plaid_access_tokens[2].user_id = Me.user_id

\* the connection row the request in hand has inserted is in the table
OwnRowStored(r) ==
    \E i \in 1..Len(plaid_access_tokens) :
        /\ plaid_access_tokens[i].item_id = r.item_id
        /\ plaid_access_tokens[i].user_id = r.user_id

\* C21: a sandbox_bootstrap request served while the configured provider
\* environment is not 'sandbox' fails at once with the configuration error:
\* no provider call has been made, no connection row has been inserted and
\* no sync has been started for it.
SandboxDisabledOutsideSandbox ==
    (Me.ep = "sandbox" /\ Me.env # "sandbox") =>
        /\ Me.pc = "done"
        /\ Me.result = Raised(SandboxOnlyMsg)
        /\ Me.status >= 400
        /\ Me.provider_calls = 0
        /\ Me.public_token = NoStr
        /\ Me.insert = "" /\ Me.item_id = NoStr /\ ~Me.success
        /\ ~Me.in_sync /\ Me.log = <<>> /\ Me.writes = 0

\* the helper is refused in a production deployment that holds connections
SandboxDisabledOutsideSandboxWitness ==
    /\ Me.ep = "sandbox" /\ Me.env = "production" /\ Me.pc = "done"
    /\ plaid_access_tokens # <<>>

\* an exception has reached the except clause of the endpoint function (a
\* failure of the initial sync after a successful exchange does not)
ReachesBoundary(r) ==
    /\ r.pc = "done" /\ r.auth = "valid"
    /\ r.result.kind = "raise"
    /\ ~(r.ep = "exchange" /\ r.success)

SandboxOrdering ==
    Me.ep = "sandbox" =>
        /\ Me.insert # "" => Me.public_token = PublicToken
        /\ Me.public_token # NoStr => Me.provider_calls >= 1
        /\ Me.in_sync => (Me.success /\ Me.insert = "ok" /\ OwnRowStored(Me))
        /\ (Me.pc = "done" /\ ~Me.success) => (~Me.in_sync /\ Me.result.kind = "raise")
        /\ (Me.pc = "done" /\ Me.status = 200) =>
               (Me.in_sync /\ Me.result.kind = "return")
        /\ (Me.pc = "done" /\ Me.in_sync /\ Me.result.kind = "raise") =>
               (Me.status = 400 /\ OwnRowStored(Me))

\* the provider fails under the initial sync of the helper: the helper
\* fails and the connection it has just stored is still there
SandboxOrderingWitness ==
    /\ Me.ep = "sandbox" /\ Me.pc = "done"
    /\ Me.in_sync /\ Me.result = Raised(PlaidErrorMsg)
    /\ Me.status = 400
    /\ OwnRowStored(Me)
    /\ Me.log # <<>> /\ Me.log[Len(Me.log)].out = "accounts_fail"

\* the insert of the current account has returned no row and no row with its
\* key is in the table
InsertUnrecovered(r) ==
    /\ r.pc = "acct_reselect"
    /\ AccountsByKey(portfolio_accounts, r.user_id, CurAccount(r).account_id) = {}

\* the accounts of the aggregate before position i that have no stored row
SkippedAccounts(r, i) ==
    {k \in 1..(i - 1) :
        AccountsByKey(portfolio_accounts, r.user_id, r.all_accounts[k].account_id) = {}}

\* C23: when the insert of a new account has returned no row and the re-query
\* returns nothing, the upsert moves to the next account (or to its end)
\* without touching a table and without raising; holding rows are written
\* only under an account id the upsert holds, so none is written for the
\* skipped account.
UnrecoverableInsertStep ==
    /\ (InsertUnrecovered(Me) /\ nFaults' = nFaults /\ proc' # proc) =>
           /\ UNCHANGED << portfolio_accounts, holdings >>
           /\ proc'[1].pc = IF Me.ai < Len(Me.all_accounts) THEN "acct_select" ELSE "return"
           /\ proc'[1].pc = "acct_select" => proc'[1].ai = Me.ai + 1
           /\ proc'[1].account_db_id = NoId
           /\ proc'[1].all_accounts = Me.all_accounts
           /\ proc'[1].all_holdings = Me.all_holdings
           /\ ~proc'[1].store_raised
           /\ proc'[1].result = NoResult
    /\ holdings' # holdings =>
           /\ Me.pc \in {"hold_insert", "hold_update"}
           /\ Me.account_db_id # NoId
           /\ \A row \in holdings' \ holdings : row.account_id = Me.account_db_id
           /\ CurHolding(Me).account_id = CurAccount(Me).account_id
           /\ Me.ai \notin SkippedAccounts(Me, Me.ai + 1)

UnrecoverableInsert == [][UnrecoverableInsertStep]_vars

\* the first account of the aggregate was skipped with its holdings, and the
\* upsert has gone on to write the second account and return
UnrecoverableInsertWitness ==
    /\ Me.pc = "done" /\ Me.in_sync /\ Me.result.kind = "return"
    /\ ~Me.store_raised
    /\ Len(Me.all_accounts) >= 2
    /\ SkippedAccounts(Me, Len(Me.all_accounts) + 1) = {1}
    /\ AccountHoldings(Me.all_holdings, Me.all_accounts[1]) # <<>>
    /\ holdings = {}

\* the connection rows of a user, in the order of the table
StoredConnections(user_id) ==
    SelectSeq(plaid_access_tokens, LAMBDA t : t.user_id = user_id)

RECURSIVE Flatten(_)
Flatten(seqs) == IF seqs = <<>> THEN <<>> ELSE Head(seqs) \o Flatten(Tail(seqs))

\* what the provider holds for the connection, under the access token of its
\* item
ItemAccounts(row) == MapSeq(MkAccount, ProviderAccounts(TokenOfItemId(row.item_id)))

ItemHoldings(row) == MapSeq(MkHolding, ProviderHoldings(TokenOfItemId(row.item_id)))

ItemSecurities(row) == MapSeq(MkSecurity, ProviderSecurities(TokenOfItemId(row.item_id)))

\* C24: the lists a sync returns are, connection after connection in the
\* order of the stored connections, the accounts the provider listed and,
\* for each connection whose holdings were fetched, its holdings and its
\* securities, each in the provider's order: same length, same positions
\* (a holding differs from the fetched one at most in the backfilled name
\* and symbol).
OrderPreserved ==
    (AtDone(1) /\ Me.result.kind = "return") =>
        LET rows == StoredConnections(Me.user_id)
            n == Len(rows)
            fetched(i) == Me.log[i].out = "ok"
        IN  /\ Len(Me.log) = n
            /\ \A i \in 1..n : Me.log[i].item_id = rows[i].item_id
            /\ Me.result.accounts = Flatten([i \in 1..n |-> ItemAccounts(rows[i])])
            /\ MapSeq(Unfilled, Me.result.holdings) =
                   MapSeq(Unfilled, Flatten([i \in 1..n |->
                       IF fetched(i) THEN ItemHoldings(rows[i]) ELSE <<>>]))
            /\ Me.result.securities =
                   Flatten([i \in 1..n |->
                       IF fetched(i) THEN ItemSecurities(rows[i]) ELSE <<>>])

\* two connections, both fetched: the second one's items follow the first
\* one's, and a security id that the provider lists twice is returned twice
OrderPreservedWitness ==
    /\ AtDone(1) /\ Me.result.kind = "return"
    /\ Len(Me.log) = 2 /\ Me.log[1].out = "ok" /\ Me.log[2].out = "ok"
    /\ Len(Me.result.accounts) = 3
    /\ Me.result.accounts[1].account_id = Me.result.accounts[3].account_id
    /\ \E i, j \in 1..Len(Me.result.securities) :
           i < j /\ Me.result.securities[i].security_id = Me.result.securities[j].security_id

\* `new` stands where `old` stood: same id, same created_at, and the other
\* columns as `data` gives them; every other row of the table is as it was
InPlace(table, table2, id, data) ==
    /\ Cardinality(table2) = Cardinality(table)
    /\ {row.id : row \in table2} = {row.id : row \in table}
    /\ \A old \in table : old.id # id => old \in table2
    /\ \A old \in table : old.id = id =>
           \E new \in table2 :
               /\ new.id = old.id
               /\ new.created_at = old.created_at
               /\ DOMAIN new = DOMAIN old
               /\ \A f \in DOMAIN data : new[f] = data[f]
               /\ table2 \ {new} = table \ {old}

\* C25: an upsert step that finds a row with the key of the account (of the
\* holding) it is writing rewrites that row alone: the row keeps its id, its
\* created_at and its key, takes the fetched values and the current time as
\* updated_at, no row is added, and every other row of both tables stays as
\* it was.
UpdateInPlaceStep ==
    /\ (Me.pc = "acct_update" /\ proc' # proc) =>
           /\ UNCHANGED holdings
           /\ portfolio_accounts' # portfolio_accounts =>
                  /\ InPlace(portfolio_accounts, portfolio_accounts', Me.existing_id,
                             AccountData(Me.user_id, CurAccount(Me), now))
                  /\ \A new \in portfolio_accounts' \ portfolio_accounts :
                         /\ new.updated_at = now
                         /\ AccountKey(new) = <<Me.user_id, CurAccount(Me).account_id>>
           /\ Cardinality(portfolio_accounts') = Cardinality(portfolio_accounts)
    /\ (Me.pc = "hold_update" /\ proc' # proc) =>
           /\ UNCHANGED portfolio_accounts
           /\ holdings' # holdings =>
                  /\ InPlace(holdings, holdings', Me.existing_id,
                             HoldingData(Me.account_db_id, CurHolding(Me), now))
                  /\ \A new \in holdings' \ holdings :
                         /\ new.updated_at = now
                         /\ HoldingKey(new) = <<Me.account_db_id, StoredSymbol(CurHolding(Me))>>
           /\ Cardinality(holdings') = Cardinality(holdings)

UpdateInPlace == [][UpdateInPlaceStep]_vars

\* a later sync has rewritten an account row and a holding row made by an
\* earlier one: both carry new values under their old id and created_at
UpdateInPlaceWitness ==
    /\ \E row \in portfolio_accounts :
           /\ row.created_at < row.updated_at
           /\ row.account_name = "Joint"
           /\ row.id[3] = 1
    /\ \E row \in holdings : row.created_at < row.updated_at
    /\ Cardinality(portfolio_accounts) >= 2

\* the external account ids of the accounts in the aggregate
AggregateAccountIds(r) == {r.all_accounts[i].account_id : i \in 1..Len(r.all_accounts)}

\* the holdings of the aggregate whose account is not in the aggregate
Orphans(r) ==
    {i \in 1..Len(r.all_holdings) : r.all_holdings[i].account_id \notin AggregateAccountIds(r)}

\* C26: every holding row hangs under a stored account row; while the upsert
\* is at a holding, the id it writes under is the id of a stored account row
\* of the user whose external account id is the holding's, so a fetched
\* holding whose account is not in the aggregate is never at hand for a
\* write, although sync returns it.
ReferentialIntegrity ==
    /\ \A h \in holdings : \E a \in portfolio_accounts : a.id = h.account_id
    /\ Me.pc \in {"hold_select", "hold_insert", "hold_update"} =>
           /\ CurHolding(Me).account_id \in AggregateAccountIds(Me)
           /\ CurHolding(Me).account_id = CurAccount(Me).account_id
           /\ \E a \in portfolio_accounts :
                  /\ a.id = Me.account_db_id
                  /\ a.user_id = Me.user_id
                  /\ a.plaid_account_id = CurHolding(Me).account_id
    /\ (AtDone(1) /\ Me.result.kind = "return") =>
           \A i \in Orphans(Me) : Me.result.holdings[i] = Me.all_holdings[i]

\* a sync without store fault over one connection returns two holdings, one
\* of them under an account the provider did not list, and leaves one
\* holding row for the user
ReferentialIntegrityWitness ==
    /\ AtDone(1) /\ Me.result.kind = "return" /\ ~Me.faulted
    /\ Len(Me.log) = 1
    /\ Orphans(Me) # {}
    /\ Len(Me.result.holdings) = 2
    /\ Cardinality({h \in holdings : OwnerOfHolding(portfolio_accounts, h) = {Me.user_id}}) = 1

\* C27: once complete_link has exchanged the token and stored the
\* connection, the request is answered 200 with success whatever the initial
\* sync does, and the connection row stays in the table, also when the
\* initial sync raises.
LinkSurvivesInitialSync ==
    (Me.ep = "exchange" /\ Me.success) =>
        /\ Me.insert = "ok"
        /\ OwnRowStored(Me)
        /\ Me.pc = "done" => (Me.in_sync /\ Me.status = 200)

\* the initial sync fails at the provider; the request is answered 200
LinkSurvivesInitialSyncWitness ==
    /\ Me.ep = "exchange" /\ Me.success /\ Me.pc = "done"
    /\ Me.result.kind = "raise"
    /\ Me.status = 200
    /\ OwnRowStored(Me)

\* the times of the requests of a client that the limiter has let through
PassedTimes(h, ip) ==
    SelectSeq(h, LAMBDA e : e.client = ip /\ e.answer = "call_next")

\* how many of them lie inside the window that ends at t
PassedInWindow(h, ip, t) ==
    Len(SelectSeq(PassedTimes(h, ip), LAMBDA e : e.time > t - window_seconds))

\* a request of ip reaches the limiter in this step
Arrives(ip) ==
    /\ Len(history') = Len(history) + 1
    /\ history'[Len(history')].client = ip

RecordedRequests(items, ip) ==
    IF HasClient(items, ip) THEN RequestsOf(items, ip) ELSE << >>

\* C29: at every instant, for every client address, at most max_requests of
\* the requests the limiter has let through carry a time inside the last
\* window_seconds; a request that arrives while max_requests of them are
\* inside the window is answered 429, is not passed on and is not recorded.
RateBoundInv ==
    \A ip \in Clients : PassedInWindow(history, ip, clock) <= max_requests

RateBoundStep ==
    \A ip \in Clients :
        (Arrives(ip) /\ PassedInWindow(history, ip, clock) >= max_requests) =>
            /\ history'[Len(history')].answer = "429"
            /\ PassedTimes(history', ip) = PassedTimes(history, ip)
            /\ RecordedRequests(client_requests', ip) = RecordedRequests(client_requests, ip)

RateBound == []RateBoundInv /\ [][RateBoundStep]_vars

\* a client with max_requests requests inside the window has just been
\* answered 429
RateBoundWitness ==
    /\ history # << >>
    /\ history[Len(history)].answer = "429"
    /\ history[Len(history)].time = clock
    /\ PassedInWindow(history, history[Len(history)].client, clock) = max_requests
    /\ Len(RecordedRequests(client_requests, history[Len(history)].client)) = max_requests

\* C30: a request is let through exactly when fewer than max_requests of the
\* requests of its client that were let through lie inside the window, so a
\* client that was answered 429 passes again as soon as that is the case,
\* however many of its requests were rejected meanwhile; and a request of
\* one client changes neither what is counted for another client nor
\* whether that client would be let through.
RateRecoveryStep ==
    \A ip \in Clients :
        Arrives(ip) =>
            /\ history'[Len(history')].answer =
                   IF PassedInWindow(history, ip, clock) < max_requests
                   THEN "call_next" ELSE "429"
            /\ \A other \in Clients \ {ip} :
                   /\ PassedTimes(history', other) = PassedTimes(history, other)
                   /\ Recent(RecordedRequests(client_requests', other), clock) =
                          Recent(RecordedRequests(client_requests, other), clock)
                   /\ Limited(client_requests', other, clock) =
                          Limited(client_requests, other, clock)

RateRecovery == [][RateRecoveryStep]_vars

\* a client was answered 429 twice, a request of another client came in
\* after that, and the first client has just been let through again
RateRecoveryWitness ==
    /\ Len(history) >= 4
    /\ history[Len(history)].answer = "call_next"
    /\ \E i, j, k \in 1..(Len(history) - 1) :
           /\ i < j /\ j < k
           /\ history[i].client = history[Len(history)].client
           /\ history[j].client = history[Len(history)].client
           /\ history[i].answer = "429" /\ history[j].answer = "429"
           /\ history[k].client # history[Len(history)].client

====
